---- MODULE Spec2Model ----
(***************************************************************************)
(* PlexFileRenamer: the direct filesystem backend (Operation.Execute,      *)
(* copyFile, moveFile and the batch loop of run) and the plan compiler's   *)
(* output-directory resolution (generateOperations.getOutputPath with the  *)
(* prompts that feed it).                                                  *)
(*                                                                         *)
(* Each system call of Execute is one step, so that a run terminated       *)
(* externally between two calls is a reachable state.                      *)
(***************************************************************************)
EXTENDS Integers, Sequences, FiniteSets, TLC

VARIABLES
    \* ---- direct backend (renamer/operations.go, cmd/main.go run) ----
    ops,        \* allOperations: the compiled operation list
    dryRun,     \* config.DryRun
    fs,         \* the filesystem: path -> file (or NoFile)
    dirs,       \* the directories that exist
    i,          \* loop index of the batch loop (1-based)
    pc,         \* position inside Execute / copyFile / moveFile
    results,    \* results[] of the batch loop
    summary,    \* the counters ShowResults prints
    killed,     \* the process was terminated externally
    run,        \* how many times the batch has been started
    pre,        \* the filesystem as it was when the current Execute was entered
    fs0,        \* the filesystem as it was when the current batch started
    dirs0,      \* the directories as they were when the current batch started
    calls,      \* the system calls issued since the current batch started
    \* ---- plan compiler (cmd/main.go run, generateOperations; cli prompts) ----
    windows,            \* the binary was built for Windows (path/filepath)
    config,             \* *Config
    database,           \* what GetLibrarySections and GetLibraryContent return
    section,            \* index of the section the loop of run is at
    ppc,                \* position inside run
    selectedLocations,  \* of the current section: [isNil, list]
    locationOutputs,    \* of the current section
    entity,             \* index of the movie or show generateOperations is at
    operations,         \* the operations generateOperations has appended so far
    allOperations,      \* the plan run has accumulated
    ApproveAll,         \* prompter.state.ApproveAll
    promptCalls,        \* the calls of PromptMovie / PromptShow made so far
    trace,              \* for each planned operation, the file it was planned from
    \* ---- functions taken on their own (renamer/formatter.go, parseFlags) ----
    fn,         \* the function that is applied
    args,       \* its arguments
    rets        \* what its successive applications returned

execVars == <<ops, dryRun, fs, dirs, i, pc, results, summary, killed, run,
              pre, fs0, dirs0, calls>>

planVars == <<windows, config, database, section, ppc, selectedLocations,
              locationOutputs, entity, operations, allOperations, ApproveAll,
              promptCalls, trace>>

fnVars == <<fn, args, rets>>

vars == <<execVars, planVars, fnVars>>

----------------------------------------------------------------------------
(* Bounds *)

MaxOps == 2      \* longest operation list
MaxSize == 2     \* byte size of the largest source file
MaxRuns == 2     \* the same list is run at most this many times

----------------------------------------------------------------------------
(* Files and operations *)

ModeCopy == "copy"
ModeMove == "move"

Sources == {"s1", "s2"}
Destinations == {"d1", "d2"}
Paths == Sources \cup Destinations

NoFile == [exists |-> FALSE, id |-> "", size |-> 0]
File(id, size) == [exists |-> TRUE, id |-> id, size |-> size]

\* The byte size of the source file a content id names.
FullSize(id) == IF id = "s1" THEN MaxSize ELSE 1

\* filepath.Dir(op.Destination): every destination lies in one output directory.
Dir(path) == "out"

Operation(src, dst, mode) == [Source |-> src, Destination |-> dst, Mode |-> mode]

\* The zero value of Result, as make([]Result, n) fills the slice.
ZeroResult ==
    [Operation |-> Operation("", "", ""), Success |-> FALSE, Skipped |-> FALSE,
     Error |-> "", Message |-> ""]

NewResults(n) == [k \in 1..n |-> ZeroResult]

ErrSourceMissing == "source file does not exist"
ErrMkdir == "failed to create directory"
ErrOpen == "failed to open source"
ErrCreate == "failed to create destination"
ErrCopy == "failed to copy"
ErrVerifyStat == "failed to verify copy"
ErrSizeMismatch == "copy verification failed: size mismatch"
ErrRemoveSource == "copied successfully but failed to remove source"
ErrUnknownMode == "unknown operation mode"

Failed(op, err) ==
    [Operation |-> op, Success |-> FALSE, Skipped |-> FALSE, Error |-> err,
     Message |-> ""]

Succeeded(op, msg) ==
    [Operation |-> op, Success |-> TRUE, Skipped |-> FALSE, Error |-> "",
     Message |-> msg]

SkippedExists(op) ==
    [Operation |-> op, Success |-> TRUE, Skipped |-> TRUE, Error |-> "",
     Message |-> "destination already exists, skipped"]

\* Operation lists of one batch: one mode for the whole list.
OpLists(mode) ==
    UNION {[1..n -> {Operation(s, d, mode) : s \in Sources, d \in Destinations}]
              : n \in 1..MaxOps}

\* Filesystems a batch can start from: a source exists or not, d1 may hold
\* an older file.
InitialFilesystems ==
    {[p \in Paths |->
        CASE p = "s1" -> IF a THEN File("s1", FullSize("s1")) ELSE NoFile
          [] p = "s2" -> IF b THEN File("s2", FullSize("s2")) ELSE NoFile
          [] p = "d1" -> IF c THEN File("old", 1) ELSE NoFile
          [] OTHER -> NoFile]
     : a \in BOOLEAN, b \in BOOLEAN, c \in BOOLEAN}

----------------------------------------------------------------------------
(* Strings.  A Go string is a sequence of one-character strings, so that   *)
(* prefixes, replacements and separators are computed and not assumed.     *)

Uppers == <<"A", "B", "C", "D", "E", "F", "G", "H", "I", "J", "K", "L", "M",
            "N", "O", "P", "Q", "R", "S", "T", "U", "V", "W", "X", "Y", "Z">>
Lowers == <<"a", "b", "c", "d", "e", "f", "g", "h", "i", "j", "k", "l", "m",
            "n", "o", "p", "q", "r", "s", "t", "u", "v", "w", "x", "y", "z">>
Digits == <<"0", "1", "2", "3", "4", "5", "6", "7", "8", "9">>

ToLowerChar(c) ==
    IF \E k \in DOMAIN Uppers : Uppers[k] = c
      THEN Lowers[CHOOSE k \in DOMAIN Uppers : Uppers[k] = c]
      ELSE c

\* strings.ToLower
ToLower(s) == [k \in 1..Len(s) |-> ToLowerChar(s[k])]

\* strings.HasPrefix, strings.HasSuffix, strings.TrimPrefix, strings.TrimSuffix
HasPrefix(s, p) == Len(p) <= Len(s) /\ SubSeq(s, 1, Len(p)) = p
HasSuffix(s, p) == Len(p) <= Len(s) /\ SubSeq(s, Len(s) - Len(p) + 1, Len(s)) = p
TrimPrefix(s, p) == IF HasPrefix(s, p) THEN SubSeq(s, Len(p) + 1, Len(s)) ELSE s
TrimSuffix(s, p) == IF HasSuffix(s, p) THEN SubSeq(s, 1, Len(s) - Len(p)) ELSE s

\* strings.ReplaceAll(s, old, new) for a non-empty old: non-overlapping
\* occurrences, left to right.
RECURSIVE ReplaceAll(_, _, _)
ReplaceAll(s, old, new) ==
    IF Len(s) = 0 THEN <<>>
    ELSE IF HasPrefix(s, old)
      THEN new \o ReplaceAll(SubSeq(s, Len(old) + 1, Len(s)), old, new)
      ELSE <<s[1]>> \o ReplaceAll(Tail(s), old, new)

\* fmt.Sprintf("%d", n) and fmt.Sprintf("%02d", n) for n >= 0
RECURSIVE Itoa(_)
Itoa(n) == IF n < 10 THEN <<Digits[n + 1]>> ELSE Itoa(n \div 10) \o <<Digits[(n % 10) + 1]>>
Itoa02(n) == IF n < 10 THEN <<"0">> \o Itoa(n) ELSE Itoa(n)

----------------------------------------------------------------------------
(* path/filepath, for the platform the binary was built for *)

\* os.PathSeparator and os.IsPathSeparator
Separator(win) == IF win THEN "\\" ELSE "/"
IsPathSeparator(win, c) == c = "/" \/ (win /\ c = "\\")

\* filepath.ToSlash / filepath.FromSlash: the identity where the separator is "/".
ToSlash(win, s) ==
    IF win THEN [k \in 1..Len(s) |-> IF s[k] = "\\" THEN "/" ELSE s[k]] ELSE s
FromSlash(win, s) ==
    IF win THEN [k \in 1..Len(s) |-> IF s[k] = "/" THEN "\\" ELSE s[k]] ELSE s

\* filepath.Ext: from the last dot of the last path element, "" if none.
RECURSIVE ExtFrom(_, _, _)
ExtFrom(win, path, k) ==
    IF k < 1 \/ IsPathSeparator(win, path[k]) THEN <<>>
    ELSE IF path[k] = "." THEN SubSeq(path, k, Len(path))
    ELSE ExtFrom(win, path, k - 1)
GetExtension(win, path) == ExtFrom(win, path, Len(path))

\* The elements of a path between separators (empty ones included).
RECURSIVE SplitPath(_, _, _)
SplitPath(win, s, acc) ==
    IF Len(s) = 0 THEN <<acc>>
    ELSE IF IsPathSeparator(win, s[1])
      THEN <<acc>> \o SplitPath(win, Tail(s), <<>>)
      ELSE SplitPath(win, Tail(s), Append(acc, s[1]))

\* The lexical processing of filepath.Clean on the elements: "" and "." are
\* dropped, ".." removes the element before it (at the root it is dropped,
\* in a relative path it is kept when nothing is left to remove).
RECURSIVE CleanElems(_, _, _)
CleanElems(rooted, elems, out) ==
    IF Len(elems) = 0 THEN out
    ELSE LET e == elems[1] IN
         IF e = <<>> \/ e = <<".">> THEN CleanElems(rooted, Tail(elems), out)
         ELSE IF e = <<".", ".">>
           THEN IF Len(out) > 0 /\ out[Len(out)] # <<".", ".">>
                  THEN CleanElems(rooted, Tail(elems), SubSeq(out, 1, Len(out) - 1))
                  ELSE IF rooted THEN CleanElems(rooted, Tail(elems), out)
                                 ELSE CleanElems(rooted, Tail(elems), Append(out, e))
           ELSE CleanElems(rooted, Tail(elems), Append(out, e))

RECURSIVE JoinElems(_, _)
JoinElems(sep, elems) ==
    IF Len(elems) = 0 THEN <<>>
    ELSE IF Len(elems) = 1 THEN elems[1]
    ELSE elems[1] \o <<sep>> \o JoinElems(sep, Tail(elems))

\* filepath.Clean (a drive letter is an ordinary first element here, which
\* gives Clean's result for drive-absolute paths such as C:\a\b).
Clean(win, path) ==
    IF Len(path) = 0 THEN <<".">>
    ELSE LET rooted == IsPathSeparator(win, path[1])
             body == JoinElems(Separator(win),
                               CleanElems(rooted, SplitPath(win, path, <<>>), <<>>))
         IN  IF rooted THEN <<Separator(win)>> \o body
             ELSE IF Len(body) = 0 THEN <<".">> ELSE body

\* filepath.Join(dir, name): empty elements are ignored, the rest is joined
\* with the separator and cleaned; all empty gives "".
Join(win, dir, name) ==
    IF Len(dir) = 0 /\ Len(name) = 0 THEN <<>>
    ELSE IF Len(dir) = 0 THEN Clean(win, name)
    ELSE IF Len(name) = 0 THEN Clean(win, dir)
    ELSE Clean(win, dir \o <<Separator(win)>> \o name)

----------------------------------------------------------------------------
(* renamer/formatter.go *)

NoInt == -1     \* a nil *int (MetadataItem.Year, MetadataItem.Index)

DefaultTVFormat ==
    <<"{", "s", "h", "o", "w", "}", "/", "S", "e", "a", "s", "o", "n", " ",
      "{", "s", "e", "a", "s", "o", "n", "}", "/", "S", "{", "s", "n", "u", "m", "}",
      "E", "{", "e", "n", "u", "m", "}", " ", "-", " ", "{", "t", "i", "t", "l", "e", "}",
      "{", "e", "x", "t", "}">>
DefaultMovieFormat ==
    <<"{", "t", "i", "t", "l", "e", "}", " ", "(", "{", "y", "e", "a", "r", "}", ")",
      "{", "e", "x", "t", "}">>

TokShow == <<"{", "s", "h", "o", "w", "}">>
TokSeason == <<"{", "s", "e", "a", "s", "o", "n", "}">>
TokSnum == <<"{", "s", "n", "u", "m", "}">>
TokEnum == <<"{", "e", "n", "u", "m", "}">>
TokTitle == <<"{", "t", "i", "t", "l", "e", "}">>
TokYear == <<"{", "y", "e", "a", "r", "}">>
TokExt == <<"{", "e", "x", "t", "}">>

\* NewFormatter: an empty format selects the default.
NewFormatter(tvFormat, movieFormat) ==
    [TVFormat |-> IF tvFormat = <<>> THEN DefaultTVFormat ELSE tvFormat,
     MovieFormat |-> IF movieFormat = <<>> THEN DefaultMovieFormat ELSE movieFormat]

\* Mutant of Replacements: "|" is replaced by "/", itself a key of the map.
Replacements_Chained ==
    << <<":", <<" ", "-">> >>, <<"/", <<"-">> >>, <<"\\", <<"-">> >>,
       <<"*", <<>> >>, <<"?", <<>> >>, <<"\"", <<"'">> >>,
       <<"<", <<>> >>, <<">", <<>> >>, <<"|", <<"/">> >> >>

\* The replacements map of sanitizeFilename, as <<old, new>> pairs.
Replacements ==
    << <<":", <<" ", "-">> >>, <<"/", <<"-">> >>, <<"\\", <<"-">> >>,
       <<"*", <<>> >>, <<"?", <<>> >>, <<"\"", <<"'">> >>,
       <<"<", <<>> >>, <<">", <<>> >>, <<"|", <<"-">> >> >>

\* unicode.IsControl, the whitespace class \s of regexp, unicode.IsSpace
\* ("NBSP" stands for the one character U+00A0).
IsControl(c) == c \in {"\t", "\n", "\r", "\f"}
IsRegexpSpace(c) == c \in {" ", "\t", "\n", "\r", "\f"}
IsSpace(c) == c \in {" ", "\t", "\n", "\r", "\f", "NBSP"}

\* for old, new := range replacements { result = strings.ReplaceAll(...) },
\* the pairs taken in the order given.
RECURSIVE ApplyReplacements(_, _)
ApplyReplacements(s, pairs) ==
    IF Len(pairs) = 0 THEN s
    ELSE ApplyReplacements(ReplaceAll(s, <<pairs[1][1]>>, pairs[1][2]), Tail(pairs))

\* strings.Map dropping the control characters
RECURSIVE DropControl(_)
DropControl(s) ==
    IF Len(s) = 0 THEN <<>>
    ELSE IF IsControl(s[1]) THEN DropControl(Tail(s))
    ELSE <<s[1]>> \o DropControl(Tail(s))

\* strings.TrimRight(s, " .")
RECURSIVE TrimRightSpaceDot(_)
TrimRightSpaceDot(s) ==
    IF Len(s) > 0 /\ s[Len(s)] \in {" ", "."}
      THEN TrimRightSpaceDot(SubSeq(s, 1, Len(s) - 1))
      ELSE s

\* regexp `\s+` replaced by one space
RECURSIVE CollapseSpaces(_)
CollapseSpaces(s) ==
    IF Len(s) = 0 THEN <<>>
    ELSE IF IsRegexpSpace(s[1])
      THEN IF Len(s) > 1 /\ IsRegexpSpace(s[2])
             THEN CollapseSpaces(Tail(s))
             ELSE <<" ">> \o CollapseSpaces(Tail(s))
      ELSE <<s[1]>> \o CollapseSpaces(Tail(s))

\* strings.TrimSpace
RECURSIVE TrimSpace(_)
TrimSpace(s) ==
    IF Len(s) > 0 /\ IsSpace(s[1]) THEN TrimSpace(Tail(s))
    ELSE IF Len(s) > 0 /\ IsSpace(s[Len(s)]) THEN TrimSpace(SubSeq(s, 1, Len(s) - 1))
    ELSE s

\* sanitizeFilename with the replacements applied in the order `pairs`
SanitizeWith(pairs, name) ==
    TrimSpace(CollapseSpaces(TrimRightSpaceDot(DropControl(ApplyReplacements(name, pairs)))))

sanitizeFilename(name) == SanitizeWith(Replacements, name)

\* Formatter.FormatMovie
FormatMovie(f, movie, ext) ==
    LET r1 == ReplaceAll(f.MovieFormat, TokTitle, sanitizeFilename(movie.Metadata.Title))
        year == IF movie.Metadata.Year = NoInt
                  THEN <<"U", "n", "k", "n", "o", "w", "n">>
                  ELSE Itoa(movie.Metadata.Year)
        r2 == ReplaceAll(r1, TokYear, year)
    IN  ReplaceAll(r2, TokExt, ext)

\* Formatter.FormatEpisode
FormatEpisode(f, show, season, episode, ext) ==
    LET r1 == ReplaceAll(f.TVFormat, TokShow, sanitizeFilename(show.Title))
        seasonNum == IF season.Index = NoInt THEN 0 ELSE season.Index
        r2 == ReplaceAll(r1, TokSeason, Itoa(seasonNum))
        r3 == ReplaceAll(r2, TokSnum, Itoa02(seasonNum))
        episodeNum == IF episode.Metadata.Index = NoInt THEN 0 ELSE episode.Metadata.Index
        r4 == ReplaceAll(r3, TokEnum, Itoa02(episodeNum))
        r5 == ReplaceAll(r4, TokTitle, sanitizeFilename(episode.Metadata.Title))
        year == IF show.Year = NoInt THEN <<>> ELSE Itoa(show.Year)
        r6 == ReplaceAll(r5, TokYear, year)
    IN  ReplaceAll(r6, TokExt, ext)

\* Mutant of ApplyPathMapping: the prefix is compared without regard to case.
ApplyPathMapping_IgnoreCase(win, path, srcPrefix, dstPrefix) ==
    IF srcPrefix = <<>> \/ dstPrefix = <<>> THEN path
    ELSE LET normalizedPath == ToSlash(win, path)
             normalizedSrc == ToSlash(win, srcPrefix)
         IN  IF HasPrefix(ToLower(normalizedPath), ToLower(normalizedSrc))
               THEN FromSlash(win,
                        dstPrefix \o SubSeq(normalizedPath, Len(normalizedSrc) + 1,
                                            Len(normalizedPath)))
               ELSE path

\* ApplyPathMapping
ApplyPathMapping(win, path, srcPrefix, dstPrefix) ==
    IF srcPrefix = <<>> \/ dstPrefix = <<>> THEN path
    ELSE LET normalizedPath == ToSlash(win, path)
             normalizedSrc == ToSlash(win, srcPrefix)
         IN  IF HasPrefix(normalizedPath, normalizedSrc)
               THEN FromSlash(win,
                        dstPrefix \o SubSeq(normalizedPath, Len(normalizedSrc) + 1,
                                            Len(normalizedPath)))
               ELSE path

----------------------------------------------------------------------------
(* cmd/main.go: location membership and output directory *)

\* normalizePathForComparison
normalizePathForComparison(win, path) ==
    TrimPrefix(TrimPrefix(ToLower(ToSlash(win, path)), <<"/", "/", "?", "/">>),
               <<"/", "/", ".", "/">>)

\* Mutant of UnderRoot: the root is compared as a plain string prefix, with
\* no separator after it.
UnderRoot_OpenPrefix(win, filePath, rootPath) ==
    HasPrefix(normalizePathForComparison(win, filePath),
              TrimSuffix(normalizePathForComparison(win, rootPath), <<"/">>))

\* The test both pathInLocations and getLocationForPath apply to one location.
UnderRoot(win, filePath, rootPath) ==
    HasPrefix(normalizePathForComparison(win, filePath),
              TrimSuffix(normalizePathForComparison(win, rootPath), <<"/">>) \o <<"/">>)

\* pathInLocations
pathInLocations(win, filePath, locations) ==
    \E k \in 1..Len(locations) : UnderRoot(win, filePath, locations[k].RootPath)

\* getLocationForPath: the root of the first location the file is under, "" if none.
getLocationForPath(win, filePath, locations) ==
    IF pathInLocations(win, filePath, locations)
      THEN locations[CHOOSE k \in 1..Len(locations) :
                        /\ UnderRoot(win, filePath, locations[k].RootPath)
                        /\ \A j \in 1..(k-1) :
                              ~UnderRoot(win, filePath, locations[j].RootPath)].RootPath
      ELSE <<>>

\* fileInLocations
fileInLocations(win, files, locations) ==
    \E k \in 1..Len(files) : pathInLocations(win, files[k].File, locations)

\* showInLocations
showInLocations(win, show, locations) ==
    \E a \in 1..Len(show.Seasons) :
       \E b \in 1..Len(show.Seasons[a].Episodes) :
          fileInLocations(win, show.Seasons[a].Episodes[b].Files, locations)

\* Mutant of getOutputPath: --output is looked at before the per-location
\* outputs.
getOutputPath_GlobalFirst(win, filePath, outputs, outputDir, locations) ==
    IF outputDir # <<>> THEN outputDir
    ELSE IF \E k \in 1..Len(outputs) :
               pathInLocations(win, filePath, <<outputs[k].Location>>)
      THEN outputs[CHOOSE k \in 1..Len(outputs) :
              /\ pathInLocations(win, filePath, <<outputs[k].Location>>)
              /\ \A j \in 1..(k-1) :
                    ~pathInLocations(win, filePath, <<outputs[j].Location>>)
           ].OutputPath
    ELSE IF getLocationForPath(win, filePath, locations) # <<>>
      THEN getLocationForPath(win, filePath, locations)
    ELSE <<".">>

\* generateOperations.getOutputPath, a closure over locationOutputs (outputs),
\* config.OutputDir (outputDir) and content.Locations (locations)
getOutputPath(win, filePath, outputs, outputDir, locations) ==
    IF \E k \in 1..Len(outputs) :
          pathInLocations(win, filePath, <<outputs[k].Location>>)
      THEN outputs[CHOOSE k \in 1..Len(outputs) :
              /\ pathInLocations(win, filePath, <<outputs[k].Location>>)
              /\ \A j \in 1..(k-1) :
                    ~pathInLocations(win, filePath, <<outputs[j].Location>>)
           ].OutputPath
    ELSE IF outputDir # <<>> THEN outputDir
    ELSE IF getLocationForPath(win, filePath, locations) # <<>>
      THEN getLocationForPath(win, filePath, locations)
    ELSE <<".">>

----------------------------------------------------------------------------
(* The batch loop and Operation.Execute *)

Src == ops[i].Source
Dst == ops[i].Destination

ZeroSummary == [succeeded |-> 0, skipped |-> 0, failed |-> 0]

\* No function is applied on its own.
NoCall ==
    /\ fn = ""
    /\ args = <<>>
    /\ rets = <<>>

\* nil slice of locations
NilLocations == [isNil |-> TRUE, list |-> <<>>]

\* The plan compiler has handed over its list and plays no further part.
PlanHandedOver ==
    /\ windows = FALSE
    /\ config = <<>>
    /\ database = <<>>
    /\ section = 1
    /\ ppc = "execute"
    /\ selectedLocations = NilLocations
    /\ locationOutputs = <<>>
    /\ entity = 1
    /\ operations = <<>>
    /\ allOperations = <<>>
    /\ ApproveAll = FALSE
    /\ promptCalls = <<>>
    /\ trace = <<>>

Init ==
    /\ PlanHandedOver
    /\ NoCall
    /\ \E mode \in {ModeCopy, ModeMove} : ops \in OpLists(mode)
    /\ dryRun \in BOOLEAN
    /\ fs \in InitialFilesystems
    /\ dirs = IF fs["d1"].exists THEN {"out"} ELSE {}
    /\ i = 1
    /\ pc = "loop"
    /\ results = NewResults(Len(ops))
    /\ summary = ZeroSummary
    /\ killed = FALSE
    /\ run = 1
    /\ pre = fs
    /\ fs0 = fs
    /\ dirs0 = dirs
    /\ calls = {}

\* Mutant of Return: the loop breaks at the first failed operation.
Return_BreakOnError(r) ==
    /\ results' = [results EXCEPT ![i] = r]
    /\ i' = IF r.Error # "" THEN Len(ops) + 1 ELSE i + 1
    /\ pc' = "loop"

\* results[i] = op.Execute(...) and the loop's increment.
Return(r) ==
    /\ results' = [results EXCEPT ![i] = r]
    /\ i' = i + 1
    /\ pc' = "loop"

Running == ~killed /\ i <= Len(ops)

\* Mutant of ExecuteDryRun: the source check runs before the dry-run return.
ExecuteDryRun_ChecksSource ==
    /\ ~killed /\ i <= Len(ops) /\ pc = "loop" /\ dryRun
    /\ pre' = fs
    /\ calls' = calls \cup {"Stat"}
    /\ results' = [results EXCEPT ![i] =
                      IF fs[ops[i].Source].exists
                        THEN Succeeded(ops[i], "dry run - no changes made")
                        ELSE Failed(ops[i], ErrSourceMissing)]
    /\ i' = i + 1
    /\ pc' = "loop"
    /\ UNCHANGED planVars
    /\ UNCHANGED fnVars
    /\ UNCHANGED <<ops, dryRun, fs, dirs, summary, killed, run, fs0, dirs0>>

\* if dryRun { result.Success = true; return result }
ExecuteDryRun ==
    /\ Running /\ pc = "loop" /\ dryRun
    /\ pre' = fs
    /\ Return(Succeeded(ops[i], "dry run - no changes made"))
    /\ UNCHANGED planVars
    /\ UNCHANGED fnVars
    /\ UNCHANGED <<ops, dryRun, fs, dirs, summary, killed, run, fs0, dirs0, calls>>

\* Mutant of Execute_StatSource: the result of the source check is ignored.
Execute_StatSource_Unchecked ==
    /\ Running /\ pc = "loop" /\ ~dryRun
    /\ pre' = fs
    /\ calls' = calls \cup {"Stat"}
    /\ pc' = "stat_dst"
    /\ UNCHANGED planVars
    /\ UNCHANGED fnVars
    /\ UNCHANGED <<ops, dryRun, fs, dirs, i, results, summary, killed, run, fs0,
                   dirs0>>

\* os.Stat(op.Source): a missing source fails the operation.
Execute_StatSource ==
    /\ Running /\ pc = "loop" /\ ~dryRun
    /\ pre' = fs
    /\ calls' = calls \cup {"Stat"}
    /\ IF ~fs[Src].exists
         THEN Return(Failed(ops[i], ErrSourceMissing))
         ELSE pc' = "stat_dst" /\ UNCHANGED <<results, i>>
    /\ UNCHANGED planVars
    /\ UNCHANGED fnVars
    /\ UNCHANGED <<ops, dryRun, fs, dirs, summary, killed, run, fs0, dirs0>>

\* Mutant of Execute_StatDestination: an existing destination is not skipped.
Execute_StatDestination_NoSkip ==
    /\ Running /\ pc = "stat_dst"
    /\ calls' = calls \cup {"Stat"}
    /\ pc' = "mkdir"
    /\ UNCHANGED planVars
    /\ UNCHANGED fnVars
    /\ UNCHANGED <<ops, dryRun, fs, dirs, i, results, summary, killed, run, pre,
                   fs0, dirs0>>

\* Mutant of Execute_StatDestination: the destinations are examined as they
\* were when the batch started, not as they are when the operation runs.
Execute_StatDestination_AtStart ==
    /\ Running /\ pc = "stat_dst"
    /\ calls' = calls \cup {"Stat"}
    /\ IF fs0[Dst].exists
         THEN Return(SkippedExists(ops[i]))
         ELSE pc' = "mkdir" /\ UNCHANGED <<results, i>>
    /\ UNCHANGED planVars
    /\ UNCHANGED fnVars
    /\ UNCHANGED <<ops, dryRun, fs, dirs, summary, killed, run, pre, fs0, dirs0>>

\* os.Stat(op.Destination): an existing destination is skipped.
Execute_StatDestination ==
    /\ Running /\ pc = "stat_dst"
    /\ calls' = calls \cup {"Stat"}
    /\ IF fs[Dst].exists
         THEN Return(SkippedExists(ops[i]))
         ELSE pc' = "mkdir" /\ UNCHANGED <<results, i>>
    /\ UNCHANGED planVars
    /\ UNCHANGED fnVars
    /\ UNCHANGED <<ops, dryRun, fs, dirs, summary, killed, run, pre, fs0, dirs0>>

\* os.MkdirAll(filepath.Dir(op.Destination)), then the switch on op.Mode.
Execute_MkdirAll ==
    /\ Running /\ pc = "mkdir"
    /\ calls' = calls \cup {"MkdirAll"}
    /\ \/ /\ dirs' = dirs \cup {Dir(Dst)}
          /\ CASE ops[i].Mode = ModeCopy -> pc' = "open" /\ UNCHANGED <<results, i>>
               [] ops[i].Mode = ModeMove -> pc' = "rename" /\ UNCHANGED <<results, i>>
               [] OTHER -> Return(Failed(ops[i], ErrUnknownMode))
       \/ /\ Dir(Dst) \notin dirs
          /\ dirs' = dirs
          /\ Return(Failed(ops[i], ErrMkdir))
    /\ UNCHANGED planVars
    /\ UNCHANGED fnVars
    /\ UNCHANGED <<ops, dryRun, fs, summary, killed, run, pre, fs0, dirs0>>

----------------------------------------------------------------------------
(* copyFile *)

\* What Execute does when copyFile returned nil: a copy is complete, a move
\* goes on to verify the copy.
CopyReturnedNil ==
    IF ops[i].Mode = ModeMove
      THEN pc' = "verify" /\ UNCHANGED <<results, i>>
      ELSE Return(Succeeded(ops[i], "copy completed"))

\* os.Open(src)
copyFile_Open ==
    /\ Running /\ pc = "open"
    /\ calls' = calls \cup {"Open"}
    /\ \/ pc' = "create" /\ UNCHANGED <<results, i>>
       \/ Return(Failed(ops[i], ErrOpen))
    /\ UNCHANGED planVars
    /\ UNCHANGED fnVars
    /\ UNCHANGED <<ops, dryRun, fs, dirs, summary, killed, run, pre, fs0, dirs0>>

\* os.Create(dst): creates the file, or truncates the one that is there.
copyFile_Create ==
    /\ Running /\ pc = "create"
    /\ calls' = calls \cup {"Create"}
    /\ \/ /\ fs' = [fs EXCEPT ![Dst] = File(fs[Src].id, 0)]
          /\ pc' = "copy" /\ UNCHANGED <<results, i>>
       \/ /\ fs' = fs
          /\ Return(Failed(ops[i], ErrCreate))
    /\ UNCHANGED planVars
    /\ UNCHANGED fnVars
    /\ UNCHANGED <<ops, dryRun, dirs, summary, killed, run, pre, fs0, dirs0>>

\* io.Copy transfers one more byte.
copyFile_CopyByte ==
    /\ Running /\ pc = "copy"
    /\ fs[Dst].size < fs[Src].size
    /\ calls' = calls \cup {"Copy"}
    /\ fs' = [fs EXCEPT ![Dst].size = @ + 1]
    /\ UNCHANGED planVars
    /\ UNCHANGED fnVars
    /\ UNCHANGED <<ops, dryRun, dirs, i, pc, results, summary, killed, run, pre,
                   fs0, dirs0>>

\* io.Copy returns an error: the transfer stops where it is.
copyFile_CopyError ==
    /\ Running /\ pc = "copy"
    /\ calls' = calls \cup {"Copy"}
    /\ pc' = "cleanup"
    /\ UNCHANGED planVars
    /\ UNCHANGED fnVars
    /\ UNCHANGED <<ops, dryRun, fs, dirs, i, results, summary, killed, run, pre,
                   fs0, dirs0>>

\* os.Remove(dst) after a failed io.Copy; its own error is dropped.
copyFile_Cleanup ==
    /\ Running /\ pc = "cleanup"
    /\ calls' = calls \cup {"Remove"}
    /\ \/ fs' = [fs EXCEPT ![Dst] = NoFile]
       \/ fs' = fs
    /\ Return(Failed(ops[i], ErrCopy))
    /\ UNCHANGED planVars
    /\ UNCHANGED fnVars
    /\ UNCHANGED <<ops, dryRun, dirs, summary, killed, run, pre, fs0, dirs0>>

\* io.Copy returns nil at the end of the source; the chmod that follows is
\* best-effort and changes no size.
copyFile_CopyDone ==
    /\ Running /\ pc = "copy"
    /\ fs[Dst].size = fs[Src].size
    /\ calls' = calls \cup {"Copy"}
    /\ CopyReturnedNil
    /\ UNCHANGED planVars
    /\ UNCHANGED fnVars
    /\ UNCHANGED <<ops, dryRun, fs, dirs, summary, killed, run, pre, fs0, dirs0>>

\* io.Copy returns nil although the destination holds fewer bytes than the
\* source (the outcome moveFile's size comparison is there to detect).
copyFile_CopyShort ==
    /\ Running /\ pc = "copy"
    /\ fs[Dst].size < fs[Src].size
    /\ calls' = calls \cup {"Copy"}
    /\ CopyReturnedNil
    /\ UNCHANGED planVars
    /\ UNCHANGED fnVars
    /\ UNCHANGED <<ops, dryRun, fs, dirs, summary, killed, run, pre, fs0, dirs0>>

----------------------------------------------------------------------------
(* moveFile *)

\* os.Rename(src, dst): on success the source's file is at dst (replacing
\* whatever was there); on failure moveFile falls back to copyFile.
moveFile_Rename ==
    /\ Running /\ pc = "rename"
    /\ calls' = calls \cup {"Rename"}
    /\ \/ /\ fs' = [fs EXCEPT ![Dst] = fs[Src], ![Src] = NoFile]
          /\ Return(Succeeded(ops[i], "move completed"))
       \/ /\ fs' = fs
          /\ pc' = "open" /\ UNCHANGED <<results, i>>
    /\ UNCHANGED planVars
    /\ UNCHANGED fnVars
    /\ UNCHANGED <<ops, dryRun, dirs, summary, killed, run, pre, fs0, dirs0>>

\* Mutant of moveFile_Verify: the sizes are not compared.
moveFile_Verify_NoSizeCheck ==
    /\ Running /\ pc = "verify"
    /\ calls' = calls \cup {"Stat"}
    /\ pc' = "remove_src"
    /\ UNCHANGED planVars
    /\ UNCHANGED fnVars
    /\ UNCHANGED <<ops, dryRun, fs, dirs, i, results, summary, killed, run, pre,
                   fs0, dirs0>>

\* srcInfo, _ := os.Stat(src); dstInfo, err := os.Stat(dst); compare sizes.
\* A nil srcInfo (source gone) panics, which ends the process.
moveFile_Verify ==
    /\ Running /\ pc = "verify"
    /\ calls' = calls \cup {"Stat"}
    /\ IF ~fs[Dst].exists
         THEN Return(Failed(ops[i], ErrVerifyStat)) /\ killed' = killed
         ELSE IF ~fs[Src].exists
           THEN killed' = TRUE /\ UNCHANGED <<results, i, pc>>
           ELSE /\ killed' = killed
                /\ pc' = IF fs[Src].size # fs[Dst].size THEN "remove_dst"
                                                        ELSE "remove_src"
                /\ UNCHANGED <<results, i>>
    /\ UNCHANGED planVars
    /\ UNCHANGED fnVars
    /\ UNCHANGED <<ops, dryRun, fs, dirs, summary, run, pre, fs0, dirs0>>

\* os.Remove(dst) on a size mismatch; its own error is dropped.
moveFile_RemoveDst ==
    /\ Running /\ pc = "remove_dst"
    /\ calls' = calls \cup {"Remove"}
    /\ \/ fs' = [fs EXCEPT ![Dst] = NoFile]
       \/ fs' = fs
    /\ Return(Failed(ops[i], ErrSizeMismatch))
    /\ UNCHANGED planVars
    /\ UNCHANGED fnVars
    /\ UNCHANGED <<ops, dryRun, dirs, summary, killed, run, pre, fs0, dirs0>>

\* Mutant of moveFile_RemoveSource: the error of os.Remove(src) is dropped.
moveFile_RemoveSource_ErrorDropped ==
    /\ Running /\ pc = "remove_src"
    /\ calls' = calls \cup {"Remove"}
    /\ \/ fs' = [fs EXCEPT ![ops[i].Source] = NoFile]
       \/ fs' = fs
    /\ results' = [results EXCEPT ![i] = Succeeded(ops[i], "move completed")]
    /\ i' = i + 1
    /\ pc' = "loop"
    /\ UNCHANGED planVars
    /\ UNCHANGED fnVars
    /\ UNCHANGED <<ops, dryRun, dirs, summary, killed, run, pre, fs0, dirs0>>

\* os.Remove(src) after the verified copy.
moveFile_RemoveSource ==
    /\ Running /\ pc = "remove_src"
    /\ calls' = calls \cup {"Remove"}
    /\ \/ /\ fs' = [fs EXCEPT ![Src] = NoFile]
          /\ Return(Succeeded(ops[i], "move completed"))
       \/ /\ fs' = fs
          /\ Return(Failed(ops[i], ErrRemoveSource))
    /\ UNCHANGED planVars
    /\ UNCHANGED fnVars
    /\ UNCHANGED <<ops, dryRun, dirs, summary, killed, run, pre, fs0, dirs0>>

----------------------------------------------------------------------------
(* End of the batch, termination from outside, and running the list again *)

IsFailed(r) == r.Error # ""
IsSkipped(r) == r.Error = "" /\ r.Skipped
IsSucceeded(r) == r.Error = "" /\ ~r.Skipped /\ r.Success

\* cli.ShowResults(results): failed if Error is set, else skipped, else succeeded.
ShowResults ==
    /\ ~killed /\ pc = "loop" /\ i > Len(ops)
    /\ pc' = "done"
    /\ summary' =
          [succeeded |-> Cardinality({k \in 1..Len(results) : IsSucceeded(results[k])}),
           skipped |-> Cardinality({k \in 1..Len(results) : IsSkipped(results[k])}),
           failed |-> Cardinality({k \in 1..Len(results) : IsFailed(results[k])})]
    /\ UNCHANGED planVars
    /\ UNCHANGED fnVars
    /\ UNCHANGED <<ops, dryRun, fs, dirs, i, results, killed, run, pre, fs0,
                   dirs0, calls>>

\* The process is terminated externally, between two system calls.
Kill ==
    /\ ~killed /\ pc # "done"
    /\ killed' = TRUE
    /\ UNCHANGED planVars
    /\ UNCHANGED fnVars
    /\ UNCHANGED <<ops, dryRun, fs, dirs, i, pc, results, summary, run, pre, fs0,
                   dirs0, calls>>

\* The same command is started again on the same compiled list.
Rerun ==
    /\ killed \/ pc = "done"
    /\ run < MaxRuns
    /\ run' = run + 1
    /\ killed' = FALSE
    /\ i' = 1
    /\ pc' = "loop"
    /\ results' = NewResults(Len(ops))
    /\ summary' = ZeroSummary
    /\ pre' = fs
    /\ fs0' = fs
    /\ dirs0' = dirs
    /\ calls' = {}
    /\ UNCHANGED planVars
    /\ UNCHANGED fnVars
    /\ UNCHANGED <<ops, dryRun, fs, dirs>>

Next ==
    \/ ExecuteDryRun
    \/ Execute_StatSource
    \/ Execute_StatDestination
    \/ Execute_MkdirAll
    \/ copyFile_Open
    \/ copyFile_Create
    \/ copyFile_CopyByte
    \/ copyFile_CopyError
    \/ copyFile_Cleanup
    \/ copyFile_CopyDone
    \/ copyFile_CopyShort
    \/ moveFile_Rename
    \/ moveFile_Verify
    \/ moveFile_RemoveDst
    \/ moveFile_RemoveSource
    \/ ShowResults
    \/ Kill
    \/ Rerun

Spec == Init /\ [][Next]_vars

\* The same list run live from a state where every source exists and no
\* destination does.
InitFresh ==
    /\ Init
    /\ ~dryRun
    /\ \A p \in Sources : fs[p].exists
    /\ \A p \in Destinations : ~fs[p].exists

NextLive ==
    \/ Execute_StatSource
    \/ Execute_StatDestination
    \/ Execute_MkdirAll
    \/ copyFile_Open
    \/ copyFile_Create
    \/ copyFile_CopyByte
    \/ copyFile_CopyError
    \/ copyFile_Cleanup
    \/ copyFile_CopyDone
    \/ copyFile_CopyShort
    \/ moveFile_Rename
    \/ moveFile_Verify
    \/ moveFile_RemoveDst
    \/ moveFile_RemoveSource
    \/ ShowResults
    \/ Kill
    \/ Rerun

SpecTwice == InitFresh /\ [][NextLive]_vars

\* Live runs in which io.Copy either reports an error or transfers every
\* byte, so that the size comparison of moveFile never fails.
NextExact ==
    \/ Execute_StatSource
    \/ Execute_StatDestination
    \/ Execute_MkdirAll
    \/ copyFile_Open
    \/ copyFile_Create
    \/ copyFile_CopyByte
    \/ copyFile_CopyError
    \/ copyFile_Cleanup
    \/ copyFile_CopyDone
    \/ moveFile_Rename
    \/ moveFile_Verify
    \/ moveFile_RemoveSource
    \/ ShowResults
    \/ Kill
    \/ Rerun

SpecInterrupted == InitFresh /\ [][NextExact]_vars

----------------------------------------------------------------------------
(* The plan compiler: the catalog and the command line it is run with *)

\* database/plex.go: SectionLocation, MetadataItem, MediaPart, MovieInfo,
\* EpisodeInfo, SeasonInfo, ShowInfo, LibraryContent (the fields run reads).
SectionTypeMovie == 1
SectionTypeShow == 2
SectionLocation(rootPath) == [RootPath |-> rootPath]
MetadataItem(title, year, index) == [Title |-> title, Year |-> year, Index |-> index]
MediaPart(file) == [File |-> file]
MovieInfo(metadata, files) == [Metadata |-> metadata, Files |-> files]
EpisodeInfo(metadata, files) == [Metadata |-> metadata, Files |-> files]
SeasonInfo(metadata, episodes) == [Metadata |-> metadata, Episodes |-> episodes]
ShowInfo(metadata, seasons) == [Metadata |-> metadata, Seasons |-> seasons]

\* One section with what GetLibraryContent returns for it; loadFails is the
\* case in which GetLibraryContent returns an error.
Library(sectionType, locations, movies, shows, loadFails) ==
    [SectionType |-> sectionType, Locations |-> locations, Movies |-> movies,
     Shows |-> shows, LoadFails |-> loadFails]

\* The movie library: two roots of which one is a string prefix of the
\* other, a file whose case differs from its root's, a file outside every
\* root, a title the sanitizer changes, a movie with no year whose file
\* already has its formatted name under its root, and a movie with no file.
MovieRootA == <<"/", "m", "/", "a">>
MovieRootAB == <<"/", "m", "/", "a", "b", "/">>
MovieLibrary(loadFails) ==
    Library(SectionTypeMovie,
            <<SectionLocation(MovieRootA), SectionLocation(MovieRootAB)>>,
            <<MovieInfo(MetadataItem(<<"A", ":", "B">>, 1999, NoInt),
                        <<MediaPart(<<"/", "M", "/", "a", "/", "f", ".", "m", "k", "v">>)>>),
              MovieInfo(MetadataItem(<<"C">>, NoInt, NoInt),
                        <<MediaPart(<<"/", "m", "/", "a", "b", "/", "C", " ", "(", "U", "n", "k",
                                     "n", "o", "w", "n", ")", ".", "m", "k", "v">>),
                          MediaPart(<<"/", "z", "/", "h", ".", "m", "p", "4">>)>>),
              MovieInfo(MetadataItem(<<"E">>, 2001, NoInt), <<>>)>>,
            <<>>, loadFails)

\* The show library: one root, a show with one episode file, and a show
\* whose only episode has no file.
ShowRoot == <<"/", "t">>
ShowLibrary(loadFails) ==
    Library(SectionTypeShow,
            <<SectionLocation(ShowRoot)>>,
            <<>>,
            <<ShowInfo(MetadataItem(<<"S", "h">>, 2020, NoInt),
                       <<SeasonInfo(MetadataItem(<<"S", "1">>, NoInt, 1),
                            <<EpisodeInfo(MetadataItem(<<"P", "?">>, NoInt, 2),
                                <<MediaPart(<<"/", "t", "/", "e", ".", "m", "k", "v">>)>>)>>)>>),
              ShowInfo(MetadataItem(<<"N">>, NoInt, NoInt),
                       <<SeasonInfo(MetadataItem(<<"S", "1">>, NoInt, 1),
                            <<EpisodeInfo(MetadataItem(<<"Q">>, NoInt, 1), <<>>)>>)>>)>>,
            loadFails)

\* The catalogs the compiler is run on: the movie library then the show
\* library, either of which may fail to load.
Databases ==
    {<<MovieLibrary(a), ShowLibrary(b)>> : a \in BOOLEAN, b \in BOOLEAN}

GlobalOutput == <<"/", "o">>
PathMapFrom == <<"/", "m">>
PathMapTo == <<"/", "n">>

\* Config as parseFlags leaves it (the fields the compiler reads; DryRun is
\* the variable dryRun).
Configs ==
    {[OutputDir |-> o, AutoApprove |-> a, ScriptMode |-> sm, Mode |-> ModeMove,
      TVFormat |-> <<>>, MovieFormat |-> <<>>,
      PathMapSrc |-> pm[1], PathMapDst |-> pm[2]] :
        o \in {<<>>, GlobalOutput}, a \in BOOLEAN, sm \in BOOLEAN,
        pm \in {<< <<>>, <<>> >>, <<PathMapFrom, PathMapTo>>}}

----------------------------------------------------------------------------
(* cli/interactive.go: what the prompts make of a line of input *)

\* The lines typed at "Process this library? [y/n/l(oop)/1-N]"
LibraryInputs ==
    {<<"y">>, <<"Y", "e", "s">>, <<"n">>, <<"l">>, <<"1">>, <<"2", ",", " ", "1">>,
     <<"7">>, <<"x">>}
\* The lines typed at the y/n/a(ll) and y/n prompts
AnswerInputs == {<<"y">>, <<"n">>, <<"a">>, <<"A", "L", "L">>}
\* The lines typed at "Output path:" ("/c" and "/d" are custom paths)
OutputInputs == {<<>>, <<" ">>, <<"/", "c">>, <<"/", "d">>}

Yes == {<<"y">>, <<"y", "e", "s">>}
No == {<<"n">>, <<"n", "o">>}
All == {<<"a">>, <<"a", "l", "l">>}
Loop == {<<"l">>, <<"l", "o", "o", "p">>}

\* strings.Split(s, sep) for a one-character sep
RECURSIVE Split(_, _, _)
Split(s, sep, acc) ==
    IF Len(s) = 0 THEN <<acc>>
    ELSE IF s[1] = sep THEN <<acc>> \o Split(Tail(s), sep, <<>>)
    ELSE Split(Tail(s), sep, Append(acc, s[1]))

DigitValue(c) == CHOOSE d \in 0..9 : Digits[d + 1] = c

\* fmt.Sscanf(part, "%d", &idx) on an unsigned part: the value of the leading
\* digits; NoInt when there is none (Sscanf returns an error).
RECURSIVE ScanDigits(_, _)
ScanDigits(s, acc) ==
    IF Len(s) > 0 /\ s[1] \in {Digits[k] : k \in 1..10}
      THEN ScanDigits(Tail(s), 10 * acc + DigitValue(s[1]))
      ELSE acc
Sscanf(part) ==
    IF Len(part) > 0 /\ part[1] \in {Digits[k] : k \in 1..10}
      THEN ScanDigits(part, 0) ELSE NoInt

\* The default branch of PromptLibrary: the locations named by the numbers.
RECURSIVE SelectByNumber(_, _)
SelectByNumber(parts, locations) ==
    IF Len(parts) = 0 THEN <<>>
    ELSE LET idx == Sscanf(TrimSpace(parts[1]))
         IN  (IF idx >= 1 /\ idx <= Len(locations) THEN <<locations[idx]>> ELSE <<>>)
             \o SelectByNumber(Tail(parts), locations)

\* askYesNoAll: (yes, approveAll) for a line of input
askYesNoAll(input) ==
    LET s == TrimSpace(ToLower(input))
    IN  [yes |-> s \in Yes \/ s \in All, all |-> s \in All]

\* askYesNo
askYesNo(input) == TrimSpace(ToLower(input)) \in Yes

\* promptLocationsLoop: the locations selected when answers[k] is the line
\* typed for locations[k] (not read once an earlier answer was "all").
RECURSIVE promptLocationsLoop(_, _, _)
promptLocationsLoop(locations, answers, approveAll) ==
    IF Len(locations) = 0 THEN <<>>
    ELSE IF approveAll
      THEN <<locations[1]>> \o promptLocationsLoop(Tail(locations), Tail(answers), TRUE)
      ELSE LET a == askYesNoAll(answers[1])
           IN  (IF a.yes THEN <<locations[1]>> ELSE <<>>)
               \o promptLocationsLoop(Tail(locations), Tail(answers), a.all)

\* What PromptLibrary returns for a line of input (and, for "loop", the
\* answers to the per-location questions): proceed and the selected locations.
PromptLibraryResult(input, answers, locations) ==
    LET s == TrimSpace(ToLower(input))
        looped == promptLocationsLoop(locations, answers, FALSE)
        picked == SelectByNumber(Split(s, ",", <<>>), locations)
    IN  IF s \in Yes THEN [proceed |-> TRUE, locations |-> NilLocations]
        ELSE IF s \in Loop
          THEN IF Len(looped) = 0
                 THEN [proceed |-> FALSE, locations |-> NilLocations]
                 ELSE [proceed |-> TRUE, locations |-> [isNil |-> FALSE, list |-> looped]]
        ELSE IF s \in No THEN [proceed |-> FALSE, locations |-> NilLocations]
        ELSE IF Len(picked) > 0
          THEN [proceed |-> TRUE, locations |-> [isNil |-> FALSE, list |-> picked]]
          ELSE [proceed |-> FALSE, locations |-> NilLocations]

\* PromptLocationOutputs: inputs[k] is the line typed for locations[k].
PromptLocationOutputsResult(locations, inputs, defaultOutput) ==
    [k \in 1..Len(locations) |->
        [Location |-> locations[k],
         OutputPath |-> IF TrimSpace(inputs[k]) # <<>> THEN TrimSpace(inputs[k])
                                                      ELSE defaultOutput]]

----------------------------------------------------------------------------
(* cmd/main.go: run up to the confirmation, and generateOperations *)

\* The direct backend has not been started.
NoBatch ==
    /\ ops = <<>>
    /\ fs = [p \in Paths |-> NoFile]
    /\ dirs = {}
    /\ i = 1
    /\ pc = "plan"
    /\ results = <<>>
    /\ summary = ZeroSummary
    /\ killed = FALSE
    /\ run = 0
    /\ pre = fs
    /\ fs0 = fs
    /\ dirs0 = {}
    /\ calls = {}

InitPlan ==
    /\ windows \in BOOLEAN
    /\ config \in Configs
    /\ dryRun \in BOOLEAN
    /\ database \in Databases
    /\ section = 1
    /\ ppc = "section"
    /\ selectedLocations = NilLocations
    /\ locationOutputs = <<>>
    /\ entity = 1
    /\ operations = <<>>
    /\ allOperations = <<>>
    /\ ApproveAll = FALSE
    /\ promptCalls = <<>>
    /\ trace = <<>>
    /\ NoBatch
    /\ NoCall

content == database[section]
formatter == NewFormatter(config.TVFormat, config.MovieFormat)
InSections == ppc = "section" /\ section <= Len(database)
Interactive == ~config.AutoApprove /\ ~config.ScriptMode

\* `continue` in the loop over the sections
NextSection ==
    /\ section' = section + 1
    /\ ppc' = "section"
    /\ selectedLocations' = NilLocations
    /\ locationOutputs' = <<>>
    /\ entity' = 1
    /\ operations' = <<>>

\* The call of generateOperations
EnterGenerate ==
    /\ ppc' = "generate"
    /\ entity' = 1
    /\ operations' = <<>>
    /\ section' = section

\* Mutant of run_LoadFails: the error of GetLibraryContent ends the run.
run_LoadFails_Abort ==
    /\ InSections /\ content.LoadFails
    /\ ppc' = "error"
    /\ UNCHANGED <<windows, config, database, section, selectedLocations,
                   locationOutputs, entity, operations, allOperations, ApproveAll,
                   promptCalls, trace>>
    /\ UNCHANGED execVars
    /\ UNCHANGED fnVars

\* db.GetLibraryContent(section) returns an error: the section is skipped.
run_LoadFails ==
    /\ InSections /\ content.LoadFails
    /\ NextSection
    /\ UNCHANGED <<windows, config, database, allOperations, ApproveAll,
                   promptCalls, trace>>
    /\ UNCHANGED execVars
    /\ UNCHANGED fnVars

\* prompter.PromptLibrary(section, content.Locations)
run_PromptLibrary ==
    /\ InSections /\ ~content.LoadFails /\ Interactive
    /\ \E input \in LibraryInputs,
          answers \in [1..Len(content.Locations) -> AnswerInputs] :
          LET r == PromptLibraryResult(input, answers, content.Locations)
              looped == TrimSpace(ToLower(input)) \in Loop
          IN  /\ ApproveAll' = (ApproveAll \/
                    (looped /\ \E k \in 1..Len(answers) : askYesNoAll(answers[k]).all))
              /\ IF ~r.proceed THEN NextSection
                 ELSE IF ~r.locations.isNil /\ Len(r.locations.list) > 0
                   THEN /\ selectedLocations' = r.locations
                        /\ ppc' = "outputs"
                        /\ UNCHANGED <<section, locationOutputs, entity, operations>>
                   ELSE /\ selectedLocations' = r.locations
                        /\ locationOutputs' = <<>>
                        /\ EnterGenerate
    /\ UNCHANGED <<windows, config, database, allOperations, promptCalls, trace>>
    /\ UNCHANGED execVars
    /\ UNCHANGED fnVars

\* prompter.PromptLocationOutputs(selectedLocations, config.OutputDir)
run_PromptLocationOutputs ==
    /\ ppc = "outputs"
    /\ \E inputs \in [1..Len(selectedLocations.list) -> OutputInputs] :
          locationOutputs' =
              PromptLocationOutputsResult(selectedLocations.list, inputs, config.OutputDir)
    /\ EnterGenerate
    /\ UNCHANGED <<windows, config, database, selectedLocations, allOperations,
                   ApproveAll, promptCalls, trace>>
    /\ UNCHANGED execVars
    /\ UNCHANGED fnVars

\* --yes or script mode: no prompt, every location, no per-location output
run_NoPrompts ==
    /\ InSections /\ ~content.LoadFails /\ ~Interactive
    /\ selectedLocations' = NilLocations
    /\ locationOutputs' = <<>>
    /\ EnterGenerate
    /\ UNCHANGED <<windows, config, database, allOperations, ApproveAll,
                   promptCalls, trace>>
    /\ UNCHANGED execVars
    /\ UNCHANGED fnVars

\* selectedLocations != nil && !pathInLocations(file.File, selectedLocations)
Eligible(file) ==
    selectedLocations.isNil \/ pathInLocations(windows, file.File, selectedLocations.list)

\* The body of the loop over the files: one preview, with the file it is for.
Preview(file, destName) ==
    [Source |-> IF config.PathMapSrc # <<>>
                  THEN ApplyPathMapping(windows, file.File, config.PathMapSrc,
                                        config.PathMapDst)
                  ELSE file.File,
     Destination |-> Join(windows,
                          getOutputPath(windows, file.File, locationOutputs,
                                        config.OutputDir, content.Locations),
                          destName),
     File |-> file.File,
     DestName |-> destName]

SourcePath(file) == Preview(file, <<>>).Source

RECURSIVE Concat(_)
Concat(seqs) == IF Len(seqs) = 0 THEN <<>> ELSE seqs[1] \o Concat(Tail(seqs))

MoviePreviews(movie) ==
    LET files == SelectSeq(movie.Files, Eligible)
    IN  [k \in 1..Len(files) |->
            Preview(files[k],
                    FormatMovie(formatter, movie,
                                GetExtension(windows, SourcePath(files[k]))))]

EpisodePreviews(show, season, episode) ==
    LET files == SelectSeq(episode.Files, Eligible)
    IN  [k \in 1..Len(files) |->
            Preview(files[k],
                    FormatEpisode(formatter, show.Metadata, season.Metadata, episode,
                                  GetExtension(windows, SourcePath(files[k]))))]

ShowPreviews(show) ==
    Concat([a \in 1..Len(show.Seasons) |->
              Concat([b \in 1..Len(show.Seasons[a].Episodes) |->
                        EpisodePreviews(show, show.Seasons[a],
                                        show.Seasons[a].Episodes[b])])])

\* `continue` in the loop over the movies or shows
NextEntity ==
    /\ entity' = entity + 1
    /\ UNCHANGED <<section, ppc, selectedLocations, locationOutputs>>

\* "Add operations from previews"
AddOperations(previews) ==
    /\ operations' = operations \o
          [k \in 1..Len(previews) |->
              Operation(previews[k].Source, previews[k].Destination, config.Mode)]
    /\ trace' = trace \o
          [k \in 1..Len(previews) |->
              [File |-> previews[k].File, DestName |-> previews[k].DestName,
               Section |-> section, Entity |-> entity, Outputs |-> locationOutputs]]

\* PromptMovie / PromptShow (when the run is interactive) and what follows:
\* with ApproveAll set they return true without reading; otherwise the
\* answer decides, and "all" sets ApproveAll.
Approval(previews) ==
    IF Interactive
      THEN \E input \in AnswerInputs :
              LET a == askYesNoAll(input)
              IN  /\ promptCalls' = Append(promptCalls,
                        [Section |-> section, Entity |-> entity,
                         Previews |-> Len(previews), Asked |-> ~ApproveAll,
                         All |-> (~ApproveAll /\ a.all)])
                  /\ ApproveAll' = (ApproveAll \/ a.all)
                  /\ IF ApproveAll \/ a.yes
                       THEN AddOperations(previews)
                       ELSE UNCHANGED <<operations, trace>>
      ELSE /\ AddOperations(previews)
           /\ UNCHANGED <<promptCalls, ApproveAll>>

\* One iteration of `for _, movie := range content.Movies`
generateOperations_Movie ==
    /\ ppc = "generate" /\ content.SectionType = SectionTypeMovie
    /\ entity <= Len(content.Movies)
    /\ LET movie == content.Movies[entity]
       IN  IF ~selectedLocations.isNil
              /\ ~fileInLocations(windows, movie.Files, selectedLocations.list)
             THEN UNCHANGED <<operations, trace, promptCalls, ApproveAll>>
             ELSE Approval(MoviePreviews(movie))
    /\ NextEntity
    /\ UNCHANGED <<windows, config, database, allOperations>>
    /\ UNCHANGED execVars
    /\ UNCHANGED fnVars

\* One iteration of `for _, show := range content.Shows`
generateOperations_Show ==
    /\ ppc = "generate" /\ content.SectionType = SectionTypeShow
    /\ entity <= Len(content.Shows)
    /\ LET show == content.Shows[entity]
       IN  IF \/ ~selectedLocations.isNil
                 /\ ~showInLocations(windows, show, selectedLocations.list)
              \/ Len(ShowPreviews(show)) = 0
             THEN UNCHANGED <<operations, trace, promptCalls, ApproveAll>>
             ELSE Approval(ShowPreviews(show))
    /\ NextEntity
    /\ UNCHANGED <<windows, config, database, allOperations>>
    /\ UNCHANGED execVars
    /\ UNCHANGED fnVars

\* Mutant of generateOperations_Return: the section's operations replace the
\* plan instead of being appended to it.
generateOperations_Return_Overwrite ==
    /\ ppc = "generate"
    /\ entity > (IF content.SectionType = SectionTypeMovie THEN Len(content.Movies)
                 ELSE IF content.SectionType = SectionTypeShow THEN Len(content.Shows)
                 ELSE 0)
    /\ allOperations' = operations
    /\ NextSection
    /\ UNCHANGED <<windows, config, database, ApproveAll, promptCalls, trace>>
    /\ UNCHANGED execVars
    /\ UNCHANGED fnVars

\* return operations, nil; allOperations = append(allOperations, ops...)
generateOperations_Return ==
    /\ ppc = "generate"
    /\ entity > (IF content.SectionType = SectionTypeMovie THEN Len(content.Movies)
                 ELSE IF content.SectionType = SectionTypeShow THEN Len(content.Shows)
                 ELSE 0)
    /\ allOperations' = allOperations \o operations
    /\ NextSection
    /\ UNCHANGED <<windows, config, database, ApproveAll, promptCalls, trace>>
    /\ UNCHANGED execVars
    /\ UNCHANGED fnVars

\* After the loop: nothing to do, the script, or the confirmation.
run_Planned ==
    /\ ppc = "section" /\ section > Len(database)
    /\ ppc' = IF Len(allOperations) = 0 THEN "nothing"
              ELSE IF config.ScriptMode THEN "script" ELSE "confirm"
    /\ UNCHANGED <<windows, config, database, section, selectedLocations,
                   locationOutputs, entity, operations, allOperations, ApproveAll,
                   promptCalls, trace>>
    /\ UNCHANGED execVars
    /\ UNCHANGED fnVars

\* prompter.ConfirmProceed(len(allOperations), config.Mode, config.DryRun)
run_ConfirmProceed ==
    /\ ppc = "confirm"
    /\ \E input \in AnswerInputs :
          ppc' = IF dryRun \/ askYesNo(input) THEN "execute" ELSE "cancelled"
    /\ UNCHANGED <<windows, config, database, section, selectedLocations,
                   locationOutputs, entity, operations, allOperations, ApproveAll,
                   promptCalls, trace>>
    /\ UNCHANGED execVars
    /\ UNCHANGED fnVars

\* The compiler is about to read a line from standard input.
AtPrompt ==
    \/ InSections /\ ~content.LoadFails /\ Interactive
    \/ ppc = "outputs"
    \/ /\ ppc = "generate" /\ Interactive /\ ~ApproveAll
       /\ \/ /\ content.SectionType = SectionTypeMovie
             /\ entity <= Len(content.Movies)
             /\ \/ selectedLocations.isNil
                \/ fileInLocations(windows, content.Movies[entity].Files,
                                   selectedLocations.list)
          \/ /\ content.SectionType = SectionTypeShow
             /\ entity <= Len(content.Shows)
             /\ Len(ShowPreviews(content.Shows[entity])) > 0
    \/ ppc = "confirm" /\ ~dryRun

\* reader.ReadString returns an error (end of input): run returns it.
run_ReadError ==
    /\ AtPrompt
    /\ ppc' = "error"
    /\ UNCHANGED <<windows, config, database, section, selectedLocations,
                   locationOutputs, entity, operations, allOperations, ApproveAll,
                   promptCalls, trace>>
    /\ UNCHANGED execVars
    /\ UNCHANGED fnVars

NextPlan ==
    \/ run_LoadFails
    \/ run_PromptLibrary
    \/ run_PromptLocationOutputs
    \/ run_NoPrompts
    \/ generateOperations_Movie
    \/ generateOperations_Show
    \/ generateOperations_Return
    \/ run_Planned
    \/ run_ConfirmProceed
    \/ run_ReadError

SpecPlan == InitPlan /\ [][NextPlan]_vars

----------------------------------------------------------------------------
(* Direct mode from the final confirmation on: ConfirmProceed, then the    *)
(* batch loop of run over the compiled list                                *)

\* Configurations of a direct run (the confirmation reads none of them).
DirectConfigs ==
    {c \in Configs : ~c.ScriptMode /\ c.OutputDir = <<>> /\ c.PathMapSrc = <<>>}

\* What ConfirmProceed did: whether it read a line, the line, what it returned.
Confirmation(asked, input, proceed) ==
    [asked |-> asked, input |-> input, proceed |-> proceed]

\* The plan is compiled and not empty; run is about to call ConfirmProceed.
InitDirect ==
    /\ windows = FALSE
    /\ config \in DirectConfigs
    /\ database = <<>>
    /\ section = 1
    /\ ppc = "confirm"
    /\ selectedLocations = NilLocations
    /\ locationOutputs = <<>>
    /\ entity = 1
    /\ operations = <<>>
    /\ allOperations = <<>>
    /\ ApproveAll = FALSE
    /\ promptCalls = <<>>
    /\ trace = <<>>
    /\ \E mode \in {ModeCopy, ModeMove} : ops \in OpLists(mode)
    /\ dryRun \in BOOLEAN
    /\ fs \in InitialFilesystems
    /\ dirs = IF fs["d1"].exists THEN {"out"} ELSE {}
    /\ i = 1
    /\ pc = "loop"
    /\ results = NewResults(Len(ops))
    /\ summary = ZeroSummary
    /\ killed = FALSE
    /\ run = 1
    /\ pre = fs
    /\ fs0 = fs
    /\ dirs0 = dirs
    /\ calls = {}
    /\ fn = "ConfirmProceed"
    /\ args = <<>>
    /\ rets = <<>>

\* Mutant of ConfirmProceed: the answer is read with askYesNoAll, so that
\* "a" and "all" confirm as well.
ConfirmProceed_YesOrAll ==
    /\ ppc = "confirm" /\ fn = "ConfirmProceed"
    /\ IF dryRun
         THEN /\ rets' = <<Confirmation(FALSE, <<>>, TRUE)>>
              /\ ppc' = "execute"
         ELSE \E input \in AnswerInputs :
                 /\ rets' = <<Confirmation(TRUE, input, askYesNoAll(input).yes)>>
                 /\ ppc' = IF askYesNoAll(input).yes THEN "execute" ELSE "cancelled"
    /\ UNCHANGED <<windows, config, database, section, selectedLocations,
                   locationOutputs, entity, operations, allOperations, ApproveAll,
                   promptCalls, trace>>
    /\ UNCHANGED execVars
    /\ UNCHANGED <<fn, args>>

\* proceed, err := prompter.ConfirmProceed(len(allOperations), config.Mode,
\* config.DryRun); if !proceed { return nil }
ConfirmProceed ==
    /\ ppc = "confirm" /\ fn = "ConfirmProceed"
    /\ IF dryRun
         THEN /\ rets' = <<Confirmation(FALSE, <<>>, TRUE)>>
              /\ ppc' = "execute"
         ELSE \E input \in AnswerInputs :
                 /\ rets' = <<Confirmation(TRUE, input, askYesNo(input))>>
                 /\ ppc' = IF askYesNo(input) THEN "execute" ELSE "cancelled"
    /\ UNCHANGED <<windows, config, database, section, selectedLocations,
                   locationOutputs, entity, operations, allOperations, ApproveAll,
                   promptCalls, trace>>
    /\ UNCHANGED execVars
    /\ UNCHANGED <<fn, args>>

\* for i, op := range allOperations { results[i] = op.Execute(config.DryRun) }
\* and ShowResults, which run reaches only with proceed = true.
run_Execute ==
    /\ ppc = "execute"
    /\ Next

NextDirect ==
    \/ ConfirmProceed
    \/ run_ReadError
    \/ run_Execute

SpecDirect == InitDirect /\ [][NextDirect]_vars

----------------------------------------------------------------------------
(* Planning without prompts, with templates given on the command line *)

\* --movie-format "../{title}{ext}" and --tv-format "{show}/E{enum}{ext}"
UserMovieFormat ==
    <<".", ".", "/", "{", "t", "i", "t", "l", "e", "}", "{", "e", "x", "t", "}">>
UserTVFormat ==
    <<"{", "s", "h", "o", "w", "}", "/", "E", "{", "e", "n", "u", "m", "}",
      "{", "e", "x", "t", "}">>

\* --output /out
ExampleOutput == <<"/", "o", "u", "t">>

\* A catalog of one show library: show "Show A", season 1, episode 3 "Pilot"
\* with the one file /src/Show A/ep1.mkv.
ExampleFile ==
    <<"/", "s", "r", "c", "/", "S", "h", "o", "w", " ", "A", "/", "e", "p", "1", ".", "m", "k", "v">>
ExampleLibrary ==
    Library(SectionTypeShow,
            <<SectionLocation(<<"/", "s", "r", "c">>)>>,
            <<>>,
            <<ShowInfo(MetadataItem(<<"S", "h", "o", "w", " ", "A">>, NoInt, NoInt),
                       <<SeasonInfo(MetadataItem(<<"S", "1">>, NoInt, 1),
                            <<EpisodeInfo(MetadataItem(<<"P", "i", "l", "o", "t">>, NoInt, 3),
                                <<MediaPart(ExampleFile)>>)>>)>>)>>,
            FALSE)
TemplateDatabases == Databases \cup {<<ExampleLibrary>>}

\* Config with --yes or --script (or both), either mode, and default or user
\* templates
TemplateConfigs ==
    {[OutputDir |-> o, AutoApprove |-> a, ScriptMode |-> sm, Mode |-> mode,
      TVFormat |-> tv, MovieFormat |-> mv,
      PathMapSrc |-> pm[1], PathMapDst |-> pm[2]] :
        o \in {<<>>, GlobalOutput, ExampleOutput}, a \in BOOLEAN, sm \in BOOLEAN,
        mode \in {ModeCopy, ModeMove},
        tv \in {<<>>, UserTVFormat}, mv \in {<<>>, UserMovieFormat},
        pm \in {<< <<>>, <<>> >>, <<PathMapFrom, PathMapTo>>}}

InitTemplates ==
    /\ windows \in BOOLEAN
    /\ config \in {c \in TemplateConfigs : c.AutoApprove \/ c.ScriptMode}
    /\ dryRun \in BOOLEAN
    /\ database \in TemplateDatabases
    /\ section = 1
    /\ ppc = "section"
    /\ selectedLocations = NilLocations
    /\ locationOutputs = <<>>
    /\ entity = 1
    /\ operations = <<>>
    /\ allOperations = <<>>
    /\ ApproveAll = FALSE
    /\ promptCalls = <<>>
    /\ trace = <<>>
    /\ NoBatch
    /\ NoCall

NextTemplates ==
    \/ run_LoadFails
    \/ run_NoPrompts
    \/ generateOperations_Movie
    \/ generateOperations_Show
    \/ generateOperations_Return
    \/ run_Planned
    \/ run_ConfirmProceed
    \/ run_ReadError

SpecTemplates == InitTemplates /\ [][NextTemplates]_vars

----------------------------------------------------------------------------
(* sanitizeFilename applied to a name, and again to its own result *)

MaxNameLen == 4
MaxApplications == 2

\* The characters names are made of: a letter, the period, the space, three
\* of the replaced characters, a control character and the no-break space.
NameChars == {"a", ".", " ", ":", "?", "\"", "\t", "NBSP"}
Names == UNION {[1..n -> NameChars] : n \in 0..MaxNameLen}

\* Neither the plan compiler nor the direct backend takes part.
Unused == NoBatch /\ dryRun = FALSE /\ PlanHandedOver

InitSanitize ==
    /\ fn = "sanitizeFilename"
    /\ args \in {<<name>> : name \in Names}
    /\ rets = <<>>
    /\ Unused

\* result = sanitizeFilename(name), then sanitizeFilename(result)
sanitizeFilename_Apply ==
    /\ fn = "sanitizeFilename"
    /\ Len(rets) < MaxApplications
    /\ rets' = Append(rets, sanitizeFilename(IF Len(rets) = 0 THEN args[1]
                                                            ELSE rets[Len(rets)]))
    /\ UNCHANGED <<fn, args>>
    /\ UNCHANGED <<execVars, planVars>>

NextSanitize == sanitizeFilename_Apply

SpecSanitize == InitSanitize /\ [][NextSanitize]_vars

----------------------------------------------------------------------------
(* FormatMovie and FormatEpisode applied to a template and metadata *)

\* Templates in which every placeholder they use occurs once.
MovieFormats ==
    {DefaultMovieFormat,
     <<"{", "y", "e", "a", "r", "}", "-", "{", "t", "i", "t", "l", "e", "}",
       "{", "e", "x", "t", "}">>}
TVFormats == {DefaultTVFormat, UserTVFormat}

\* Titles, among them titles that are themselves placeholder tokens.
Titles == {<<"A">>, <<"B", "?">>, TokTitle, TokExt, TokYear}
ShowTitles == {<<"S", "h">>, TokTitle, TokEnum}
Years == {NoInt, 1999}
Indexes == {NoInt, 3}
Exts == {<<".", "m">>, <<>>}

InitFormat ==
    /\ \/ /\ fn = "FormatMovie"
          /\ args \in [format : MovieFormats,
                       movie : {MovieInfo(MetadataItem(t, y, NoInt), <<>>) :
                                   t \in Titles, y \in Years},
                       ext : Exts]
       \/ /\ fn = "FormatEpisode"
          /\ args \in [format : TVFormats,
                       show : {MetadataItem(t, y, NoInt) : t \in ShowTitles, y \in Years},
                       season : {MetadataItem(<<>>, NoInt, x) : x \in Indexes},
                       episode : {EpisodeInfo(MetadataItem(t, NoInt, x), <<>>) :
                                     t \in Titles, x \in Indexes},
                       ext : Exts]
    /\ rets = <<>>
    /\ Unused

\* destName := formatter.FormatMovie(&movie, ext)
FormatMovie_Apply ==
    /\ fn = "FormatMovie" /\ rets = <<>>
    /\ rets' = <<FormatMovie(NewFormatter(<<>>, args.format), args.movie, args.ext)>>
    /\ UNCHANGED <<fn, args>>
    /\ UNCHANGED <<execVars, planVars>>

\* destName := formatter.FormatEpisode(&show.Metadata, &season.Metadata, &episode, ext)
FormatEpisode_Apply ==
    /\ fn = "FormatEpisode" /\ rets = <<>>
    /\ rets' = <<FormatEpisode(NewFormatter(args.format, <<>>), args.show, args.season,
                               args.episode, args.ext)>>
    /\ UNCHANGED <<fn, args>>
    /\ UNCHANGED <<execVars, planVars>>

NextFormat ==
    \/ FormatMovie_Apply
    \/ FormatEpisode_Apply

SpecFormat == InitFormat /\ [][NextFormat]_vars

----------------------------------------------------------------------------
(* ApplyPathMapping on its own, and behind the --path-map option *)

\* Paths and prefixes in their case and separator variants
RemapPaths ==
    {<<"/", "m", "/", "a">>, <<"/", "M", "/", "a">>, <<"\\", "m", "\\", "a">>,
     <<"/", "m", "x">>, <<"/", "n", "/", "a">>, <<>>}
RemapSrcPrefixes == {<<>>, <<"/", "m">>, <<"\\", "m">>, <<"/", "M">>}
RemapDstPrefixes == {<<>>, <<"/", "n">>, <<"\\", "n">>}

\* --path-map values: none, old:new, the README's drive-letter example
\* F:\Media:H:\Media (with M for Media), and a value without a colon
DrivePathMap == <<"F", ":", "\\", "M", ":", "H", ":", "\\", "M">>
PathMapOptions == {<<>>, <<"/", "m", ":", "/", "n">>, DrivePathMap, <<"/", "m">>}
\* Files as Plex recorded them
RecordedFiles ==
    {<<"F", ":", "\\", "M", "\\", "x">>, <<"/", "m", "/", "x">>, <<"/", "z", "/", "x">>}

\* strings.SplitN(s, sep, 2) for a one-character sep
RECURSIVE SplitN2(_, _, _)
SplitN2(s, sep, acc) ==
    IF Len(s) = 0 THEN <<acc>>
    ELSE IF s[1] = sep THEN <<acc, Tail(s)>>
    ELSE SplitN2(Tail(s), sep, Append(acc, s[1]))

InitRemap ==
    /\ \/ /\ fn = "ApplyPathMapping"
          /\ args \in [win : BOOLEAN, path : RemapPaths, srcPrefix : RemapSrcPrefixes,
                       dstPrefix : RemapDstPrefixes]
       \/ /\ fn = "parseFlags"
          /\ args \in [win : BOOLEAN, pathMap : PathMapOptions, file : RecordedFiles]
    /\ rets = <<>>
    /\ Unused

\* renamer.ApplyPathMapping(srcPath, config.PathMapSrc, config.PathMapDst)
ApplyPathMapping_Apply ==
    /\ fn = "ApplyPathMapping" /\ rets = <<>>
    /\ rets' = <<ApplyPathMapping(args.win, args.path, args.srcPrefix, args.dstPrefix)>>
    /\ UNCHANGED <<fn, args>>
    /\ UNCHANGED <<execVars, planVars>>

\* parseFlags: "Parse path mapping"; a value without ":" ends the program.
parseFlags_PathMap ==
    /\ fn = "parseFlags" /\ rets = <<>>
    /\ LET parts == SplitN2(args.pathMap, ":", <<>>)
       IN  rets' = IF args.pathMap = <<>>
                     THEN <<[exit |-> FALSE, PathMapSrc |-> <<>>, PathMapDst |-> <<>>]>>
                   ELSE IF Len(parts) = 2
                     THEN <<[exit |-> FALSE, PathMapSrc |-> parts[1],
                             PathMapDst |-> parts[2]]>>
                     ELSE <<[exit |-> TRUE, PathMapSrc |-> <<>>, PathMapDst |-> <<>>]>>
    /\ UNCHANGED <<fn, args>>
    /\ UNCHANGED <<execVars, planVars>>

\* generateOperations: srcPath of a file under the parsed mapping
generateOperations_SourcePath ==
    /\ fn = "parseFlags" /\ Len(rets) = 1 /\ ~rets[1].exit
    /\ rets' = Append(rets,
                  IF rets[1].PathMapSrc # <<>>
                    THEN ApplyPathMapping(args.win, args.file, rets[1].PathMapSrc,
                                          rets[1].PathMapDst)
                    ELSE args.file)
    /\ UNCHANGED <<fn, args>>
    /\ UNCHANGED <<execVars, planVars>>

NextRemap ==
    \/ ApplyPathMapping_Apply
    \/ parseFlags_PathMap
    \/ generateOperations_SourcePath

SpecRemap == InitRemap /\ [][NextRemap]_vars

----------------------------------------------------------------------------
(* cmd/main.go, the script backend: outputScript and its three writers *)

MaxScriptOps == 2     \* longest operation list handed to outputScript

\* filepath.Dir: everything up to the last separator, cleaned.
RECURSIVE LastSeparator(_, _, _)
LastSeparator(win, path, k) ==
    IF k < 1 THEN 0
    ELSE IF IsPathSeparator(win, path[k]) THEN k
    ELSE LastSeparator(win, path, k - 1)
FilepathDir(win, path) ==
    Clean(win, SubSeq(path, 1, LastSeparator(win, path, Len(path))))

\* fmt's %s of an OperationMode
ModeText(mode) ==
    IF mode = ModeCopy THEN <<"c", "o", "p", "y">> ELSE <<"m", "o", "v", "e">>

\* escapeCmdPath: % is doubled, ^ is doubled, then & < > | ! get a caret.
escapeCmdPath(path) ==
    LET r1 == ReplaceAll(path, <<"%">>, <<"%", "%">>)
        r2 == ReplaceAll(r1, <<"^">>, <<"^", "^">>)
        r3 == ReplaceAll(r2, <<"&">>, <<"^", "&">>)
        r4 == ReplaceAll(r3, <<"<">>, <<"^", "<">>)
        r5 == ReplaceAll(r4, <<">">>, <<"^", ">">>)
        r6 == ReplaceAll(r5, <<"|">>, <<"^", "|">>)
    IN  ReplaceAll(r6, <<"!">>, <<"^", "!">>)

\* strings.ReplaceAll(path, "'", "''") of writeScriptPowerShell
escapePowerShell(path) == ReplaceAll(path, <<"'">>, <<"'", "'">>)

\* strings.ReplaceAll(path, "'", "'\\''") of writeScriptBash
escapeBash(path) == ReplaceAll(path, <<"'">>, <<"'", "\\", "'", "'">>)

\* "%s" between double quotes, '%s' between single quotes
DoubleQuoted(text) == <<"\"">> \o text \o <<"\"">>
SingleQuoted(text) == <<"'">> \o text \o <<"'">>

\* One line of a script: the command it runs (verb), the test that guards the
\* command ("" when there is none) and the words the line hands to the test
\* and to the command, each exactly as the writer prints it.
ScriptLine(kind, guard, verb, words) ==
    [kind |-> kind, guard |-> guard, verb |-> verb, words |-> words]

\* "[%d/%d] %s", "  From: %s", "  To:   %s"
ProgressText(k, total, mode) ==
    <<"[">> \o Itoa(k) \o <<"/">> \o Itoa(total) \o <<"]", " ">> \o ModeText(mode)
FromText(path) == <<" ", " ", "F", "r", "o", "m", ":", " ">> \o path
ToText(path) == <<" ", " ", "T", "o", ":", " ", " ", " ">> \o path

\* The header block of a script (comment lines and one empty line) and the
\* lines after the loop.
HeaderLine(mode, total) ==
    ScriptLine("comment", "", "", <<ModeText(mode), Itoa(total)>>)
HeaderLen == 1

\* writeScriptCmd: the five lines of one operation
CmdLines(win, op, k, total, mode) ==
    LET src == escapeCmdPath(op.Source)
        dst == escapeCmdPath(op.Destination)
        destDir == escapeCmdPath(FilepathDir(win, op.Destination))
    IN  << ScriptLine("progress", "", "echo", <<ProgressText(k, total, mode)>>),
           ScriptLine("progress", "", "echo", <<FromText(escapeCmdPath(op.Source))>>),
           ScriptLine("progress", "", "echo",
                      <<ToText(escapeCmdPath(op.Destination))>>),
           ScriptLine("mkdir", "if not exist", "mkdir",
                      <<DoubleQuoted(destDir), DoubleQuoted(destDir)>>),
           ScriptLine("transfer", "if not exist",
                      IF mode = ModeCopy THEN "copy" ELSE "move",
                      <<DoubleQuoted(dst), DoubleQuoted(src), DoubleQuoted(dst)>>) >>

\* writeScriptPowerShell: the five lines of one operation
PowerShellLines(win, op, k, total, mode) ==
    LET src == escapePowerShell(op.Source)
        dst == escapePowerShell(op.Destination)
        destDir == escapePowerShell(FilepathDir(win, op.Destination))
    IN  << ScriptLine("progress", "", "Write-Host",
                      <<SingleQuoted(ProgressText(k, total, mode))>>),
           ScriptLine("progress", "", "Write-Host", <<SingleQuoted(FromText(src))>>),
           ScriptLine("progress", "", "Write-Host", <<SingleQuoted(ToText(dst))>>),
           ScriptLine("mkdir", "-not Test-Path", "New-Item -Force",
                      <<SingleQuoted(destDir), SingleQuoted(destDir)>>),
           ScriptLine("transfer", "-not Test-Path",
                      IF mode = ModeCopy THEN "Copy-Item" ELSE "Move-Item",
                      <<SingleQuoted(dst), SingleQuoted(src), SingleQuoted(dst)>>) >>

\* writeScriptBash: the five lines of one operation
BashLines(win, op, k, total, mode) ==
    LET src == escapeBash(op.Source)
        dst == escapeBash(op.Destination)
        destDir == escapeBash(FilepathDir(win, op.Destination))
    IN  << ScriptLine("progress", "", "echo",
                      <<SingleQuoted(ProgressText(k, total, mode))>>),
           ScriptLine("progress", "", "echo", <<SingleQuoted(FromText(src))>>),
           ScriptLine("progress", "", "echo", <<SingleQuoted(ToText(dst))>>),
           ScriptLine("mkdir", "", "mkdir -p", <<SingleQuoted(destDir)>>),
           ScriptLine("transfer", "! -f", IF mode = ModeCopy THEN "cp" ELSE "mv",
                      <<SingleQuoted(dst), SingleQuoted(src), SingleQuoted(dst)>>) >>

\* for i, op := range operations, from operation k on
RECURSIVE CmdBody(_, _, _, _)
CmdBody(win, list, k, mode) ==
    IF k > Len(list) THEN <<>>
    ELSE CmdLines(win, list[k], k, Len(list), mode) \o CmdBody(win, list, k + 1, mode)
RECURSIVE PowerShellBody(_, _, _, _)
PowerShellBody(win, list, k, mode) ==
    IF k > Len(list) THEN <<>>
    ELSE PowerShellLines(win, list[k], k, Len(list), mode)
           \o PowerShellBody(win, list, k + 1, mode)
RECURSIVE BashBody(_, _, _, _)
BashBody(win, list, k, mode) ==
    IF k > Len(list) THEN <<>>
    ELSE BashLines(win, list[k], k, Len(list), mode) \o BashBody(win, list, k + 1, mode)

\* "echo Completed %d operations." (batch adds "echo." and "pause")
Completed(total) ==
    <<"C", "o", "m", "p", "l", "e", "t", "e", "d", " ">> \o Itoa(total)

writeScriptCmd(win, list, mode) ==
    <<HeaderLine(mode, Len(list))>> \o CmdBody(win, list, 1, mode)
      \o << ScriptLine("blank", "", "echo.", <<>>),
            ScriptLine("progress", "", "echo", <<Completed(Len(list))>>),
            ScriptLine("pause", "", "pause", <<>>) >>
writeScriptPowerShell(win, list, mode) ==
    <<HeaderLine(mode, Len(list))>> \o PowerShellBody(win, list, 1, mode)
      \o << ScriptLine("progress", "", "Write-Host",
                       <<SingleQuoted(Completed(Len(list)))>>) >>
writeScriptBash(win, list, mode) ==
    <<HeaderLine(mode, Len(list))>> \o BashBody(win, list, 1, mode)
      \o << ScriptLine("progress", "", "echo", <<SingleQuoted(Completed(Len(list)))>>) >>

\* writeScriptPreview: one entry per operation, op.Mode and the two paths as
\* they are.
RECURSIVE PreviewBody(_, _)
PreviewBody(list, k) ==
    IF k > Len(list) THEN <<>>
    ELSE << ScriptLine("preview", "", "",
                       <<Itoa(k), ModeText(list[k].Mode), list[k].Source,
                         list[k].Destination>>) >> \o PreviewBody(list, k + 1)
writeScriptPreview(list, mode) == <<HeaderLine(mode, Len(list))>> \o PreviewBody(list, 1)

\* strings.ToLower(config.ScriptShell) and the switch of outputScript
Dialect(shell) ==
    LET s == ToLower(shell)
    IN  IF s \in {<<"p", "o", "w", "e", "r", "s", "h", "e", "l", "l">>,
                  <<"p", "s">>, <<"p", "s", "1">>}
          THEN "powershell"
        ELSE IF s \in {<<"b", "a", "s", "h">>, <<"s", "h">>} THEN "bash"
        ELSE "cmd"

\* outputScript: the content written to the file
outputScript(win, list, shell, mode, isDryRun) ==
    IF isDryRun THEN writeScriptPreview(list, mode)
    ELSE IF Dialect(shell) = "powershell" THEN writeScriptPowerShell(win, list, mode)
    ELSE IF Dialect(shell) = "bash" THEN writeScriptBash(win, list, mode)
    ELSE writeScriptCmd(win, list, mode)

----------------------------------------------------------------------------
(* How the three interpreters read the words the writers print *)

\* A batch file turns %% into % before anything else.
ReadCmdPercent(text) == ReplaceAll(text, <<"%", "%">>, <<"%">>)

\* Outside double quotes cmd.exe takes the character after a caret as it is.
RECURSIVE ReadCmdCaret(_)
ReadCmdCaret(text) ==
    IF Len(text) = 0 THEN <<>>
    ELSE IF text[1] = "^" /\ Len(text) > 1
      THEN <<text[2]>> \o ReadCmdCaret(SubSeq(text, 3, Len(text)))
    ELSE IF text[1] = "^" THEN <<>>
    ELSE <<text[1]>> \o ReadCmdCaret(Tail(text))
ReadCmdBare(text) == ReadCmdCaret(ReadCmdPercent(text))

\* Between double quotes cmd.exe takes every character as it is, the caret
\* included.
ReadCmdQuoted(word) == ReadCmdPercent(SubSeq(word, 2, Len(word) - 1))

\* A PowerShell single-quoted literal: two quotes stand for one.
ReadPowerShellQuoted(word) ==
    ReplaceAll(SubSeq(word, 2, Len(word) - 1), <<"'", "'">>, <<"'">>)

\* A POSIX shell word: single-quoted stretches are literal, outside them a
\* backslash quotes the next character.
RECURSIVE ReadBashWord(_, _)
ReadBashWord(word, quoted) ==
    IF Len(word) = 0 THEN <<>>
    ELSE IF quoted
      THEN IF word[1] = "'" THEN ReadBashWord(Tail(word), FALSE)
           ELSE <<word[1]>> \o ReadBashWord(Tail(word), TRUE)
    ELSE IF word[1] = "'" THEN ReadBashWord(Tail(word), TRUE)
    ELSE IF word[1] = "\\" /\ Len(word) > 1
      THEN <<word[2]>> \o ReadBashWord(SubSeq(word, 3, Len(word)), FALSE)
    ELSE <<word[1]>> \o ReadBashWord(Tail(word), FALSE)

\* What the interpreter of a dialect takes word k of a line to be.
ReadWord(dialect, line, k) ==
    IF dialect = "powershell" THEN ReadPowerShellQuoted(line.words[k])
    ELSE IF dialect = "bash" THEN ReadBashWord(line.words[k], FALSE)
    ELSE IF line.kind = "progress" THEN ReadCmdBare(line.words[k])
    ELSE ReadCmdQuoted(line.words[k])

----------------------------------------------------------------------------
(* Writing a script and running it *)

ScriptSources == {<<"/", "s", "/", "a">>, <<"/", "s", "/", "b">>}
ScriptDestinations == {<<"/", "o", "/", "x">>, <<"/", "o", "/", "T", "&", "J">>, <<"/", "o", "/", "i", "'", "s">>}
ScriptShells == {<<"c", "m", "d">>, <<"p", "s", "1">>, <<"P", "o", "w", "e", "r", "S", "h", "e", "l", "l">>, <<"s", "h">>, <<"B", "a", "s", "h">>, <<"z", "s", "h">>}

\* The paths a script of any dialect can name for these operations.
ScriptPaths ==
    LET base == ScriptSources \cup ScriptDestinations
    IN  base \cup {ReadCmdQuoted(DoubleQuoted(escapeCmdPath(p))) : p \in base}
             \cup {ReadPowerShellQuoted(SingleQuoted(escapePowerShell(p))) : p \in base}
             \cup {ReadBashWord(SingleQuoted(escapeBash(p)), FALSE) : p \in base}

NoContent == <<>>
OldContent == <<"o", "l", "d">>

\* Operation lists as generateOperations builds them: every entry carries
\* config.Mode.
ScriptOpLists(mode) ==
    UNION {[1..n -> {Operation(s, d, mode) : s \in ScriptSources, d \in ScriptDestinations}]
             : n \in 0..MaxScriptOps}

\* The files before the script runs: every source holds its own content and
\* the destinations in existing hold older content.
FilesBefore(existing) ==
    [p \in ScriptPaths |-> IF p \in ScriptSources THEN p
                           ELSE IF p \in existing THEN OldContent ELSE NoContent]

ScriptStart(existing) ==
    [line |-> 1, files |-> FilesBefore(existing), dirs |-> {}, shown |-> <<>>]

InitScript ==
    /\ fn = "outputScript"
    /\ \E mode \in {ModeCopy, ModeMove} :
         args \in [win : BOOLEAN, shell : ScriptShells, Mode : {mode}, DryRun : BOOLEAN,
                   operations : ScriptOpLists(mode),
                   existing : SUBSET ScriptDestinations]
    /\ rets = <<>>
    /\ Unused

\* outputScript(allOperations, config)
outputScript_Write ==
    /\ fn = "outputScript" /\ rets = <<>>
    /\ rets' = << outputScript(args.win, args.operations, args.shell, args.Mode,
                               args.DryRun),
                  ScriptStart(args.existing) >>
    /\ UNCHANGED <<fn, args>>
    /\ UNCHANGED <<execVars, planVars>>

\* The test of a guarded line: "if not exist" and Test-Path see files and
\* directories, [ -f ] sees regular files only.
GuardPasses(guard, state, path) ==
    \/ guard = ""
    \/ /\ path \notin DOMAIN state.files \/ state.files[path] = NoContent
       /\ guard = "! -f" \/ path \notin state.dirs

\* The interpreter of the script's dialect runs the next line.
RunLine(dialect, line, state) ==
    LET next == [state EXCEPT !.line = @ + 1] IN
    IF line.kind = "progress"
      THEN [next EXCEPT !.shown = Append(@, ReadWord(dialect, line, 1))]
    ELSE IF line.kind = "mkdir"
      THEN IF GuardPasses(line.guard, state, ReadWord(dialect, line, 1))
             THEN [next EXCEPT !.dirs = @ \cup {ReadWord(dialect, line, Len(line.words))}]
             ELSE next
    ELSE IF line.kind = "transfer"
      THEN LET src == ReadWord(dialect, line, 2)
               dst == ReadWord(dialect, line, 3)
           IN  IF /\ GuardPasses(line.guard, state, ReadWord(dialect, line, 1))
                  /\ src \in DOMAIN state.files /\ state.files[src] # NoContent
                  /\ dst \in DOMAIN state.files /\ dst # src
                 THEN [next EXCEPT !.files =
                         [p \in DOMAIN state.files |->
                            IF p = dst THEN state.files[src]
                            ELSE IF p = src /\ line.verb \in {"move", "Move-Item", "mv"}
                              THEN NoContent
                            ELSE state.files[p]]]
                 ELSE next
    ELSE next

\* Running the written script, one line at a time; a preview is not a script.
script_RunLine ==
    /\ fn = "outputScript" /\ Len(rets) = 2 /\ ~args.DryRun
    /\ rets[2].line <= Len(rets[1])
    /\ rets' = <<rets[1], RunLine(Dialect(args.shell), rets[1][rets[2].line], rets[2])>>
    /\ UNCHANGED <<fn, args>>
    /\ UNCHANGED <<execVars, planVars>>

NextScript ==
    \/ outputScript_Write
    \/ script_RunLine

SpecScript == InitScript /\ [][NextScript]_vars

----------------------------------------------------------------------------
(* The script writers on one operation, for paths with metacharacters *)

MaxPathLen == 2     \* longest file name handed to the writers

PathChars == {"a", "'", "&", "%", "!", "^"}
PathNames == UNION {[1..n -> PathChars] : n \in 1..MaxPathLen}
SourceDir == <<"/", "s", "/">>
OutputDir == <<"/", "o", "/">>

\* The loop body of the writer outputScript selects for the shell.
OperationLines(win, shell, op, k, total, mode) ==
    IF Dialect(shell) = "powershell" THEN PowerShellLines(win, op, k, total, mode)
    ELSE IF Dialect(shell) = "bash" THEN BashLines(win, op, k, total, mode)
    ELSE CmdLines(win, op, k, total, mode)

InitEscape ==
    /\ fn = "writeScript"
    /\ \E mode \in {ModeCopy, ModeMove}, name \in PathNames :
         args \in [win : {FALSE}, shell : ScriptShells, Mode : {mode},
                   op : {Operation(SourceDir \o name, OutputDir \o name, mode)}]
    /\ rets = <<>>
    /\ Unused

\* One pass of "for i, op := range operations" over a list of one operation.
writeScript_Operation ==
    /\ fn = "writeScript" /\ rets = <<>>
    /\ rets' = OperationLines(args.win, args.shell, args.op, 1, 1, args.Mode)
    /\ UNCHANGED <<fn, args>>
    /\ UNCHANGED <<execVars, planVars>>

NextEscape == writeScript_Operation

SpecEscape == InitEscape /\ [][NextEscape]_vars

----------------------------------------------------------------------------
(* The four location tests of cmd/main.go on their own *)

MaxLocations == 2     \* longest list of locations

\* File paths: under the root, under it in another case, under a root that
\* only shares a string prefix, the root itself, with backslashes, with the
\* long-path prefix, and elsewhere.
LocationPaths ==
    {<<"/", "a", "/", "b", "/", "x">>, <<"/", "A", "/", "B", "/", "x">>,
     <<"/", "a", "/", "b", "c", "/", "x">>, <<"/", "a", "/", "b">>,
     <<"\\", "a", "\\", "b", "\\", "x">>,
     <<"/", "/", "?", "/", "a", "/", "b", "/", "x">>,
     <<"/", "z", "/", "q">>}
LocationRoots ==
    {<<"/", "a", "/", "b">>, <<"/", "a", "/", "b", "/">>, <<"/", "A", "/", "b">>,
     <<"\\", "a", "\\", "b">>, <<"/", "a", "/", "b", "c">>}
LocationLists ==
    UNION {[1..n -> {SectionLocation(r) : r \in LocationRoots}] : n \in 1..MaxLocations}
ElsewherePath == <<"/", "y", "/", "q">>

InitLocations ==
    /\ fn \in {"pathInLocations", "getLocationForPath", "fileInLocations",
               "showInLocations"}
    /\ args \in [win : BOOLEAN, filePath : LocationPaths, locations : LocationLists]
    /\ rets = <<>>
    /\ Unused

\* pathInLocations(filePath, locations)
pathInLocations_Apply ==
    /\ fn = "pathInLocations" /\ rets = <<>>
    /\ rets' = <<pathInLocations(args.win, args.filePath, args.locations)>>
    /\ UNCHANGED <<fn, args>>
    /\ UNCHANGED <<execVars, planVars>>

\* getLocationForPath(filePath, locations)
getLocationForPath_Apply ==
    /\ fn = "getLocationForPath" /\ rets = <<>>
    /\ rets' = <<getLocationForPath(args.win, args.filePath, args.locations)>>
    /\ UNCHANGED <<fn, args>>
    /\ UNCHANGED <<execVars, planVars>>

\* fileInLocations(files, locations) for a movie with a file elsewhere and
\* the file
fileInLocations_Apply ==
    /\ fn = "fileInLocations" /\ rets = <<>>
    /\ rets' = <<fileInLocations(args.win,
                                 <<MediaPart(ElsewherePath), MediaPart(args.filePath)>>,
                                 args.locations)>>
    /\ UNCHANGED <<fn, args>>
    /\ UNCHANGED <<execVars, planVars>>

\* showInLocations(show, locations) for a show with an episode without
\* files and an episode with the file
showInLocations_Apply ==
    /\ fn = "showInLocations" /\ rets = <<>>
    /\ rets' = <<showInLocations(args.win,
                    ShowInfo(MetadataItem(<<"S">>, NoInt, NoInt),
                       <<SeasonInfo(MetadataItem(<<"S", "1">>, NoInt, 1),
                            <<EpisodeInfo(MetadataItem(<<"Q">>, NoInt, 1), <<>>),
                              EpisodeInfo(MetadataItem(<<"R">>, NoInt, 2),
                                          <<MediaPart(args.filePath)>>)>>)>>),
                    args.locations)>>
    /\ UNCHANGED <<fn, args>>
    /\ UNCHANGED <<execVars, planVars>>

NextLocations ==
    \/ pathInLocations_Apply
    \/ getLocationForPath_Apply
    \/ fileInLocations_Apply
    \/ showInLocations_Apply

SpecLocations == InitLocations /\ [][NextLocations]_vars

----------------------------------------------------------------------------
(* sanitizeFilename with its map ranged over in any order *)

MaxRangedLen == 2     \* longest name sanitized with the map in any order

\* Names of the nine keys of the map and a letter.
RangedChars == {Replacements[k][1] : k \in 1..Len(Replacements)} \cup {"a"}
RangedNames == UNION {[1..n -> RangedChars] : n \in 1..MaxRangedLen}

\* rets[1] is the running result with the keys still to come.
InitRange ==
    /\ fn = "range replacements"
    /\ args \in {<<name>> : name \in RangedNames}
    /\ rets = <<[result |-> args[1], left |-> 1..Len(Replacements), returned |-> FALSE]>>
    /\ Unused

\* One iteration of `for old, new := range replacements`: the runtime hands
\* out any key not yet handed out.
sanitizeFilename_Replace ==
    /\ fn = "range replacements"
    /\ \E k \in rets[1].left :
         rets' = <<[result |-> ReplaceAll(rets[1].result, <<Replacements[k][1]>>,
                                          Replacements[k][2]),
                    left |-> rets[1].left \ {k},
                    returned |-> FALSE]>>
    /\ UNCHANGED <<fn, args>>
    /\ UNCHANGED <<execVars, planVars>>

\* After the loop: control characters, trailing spaces and periods, runs of
\* whitespace, and the final trim.
sanitizeFilename_Return ==
    /\ fn = "range replacements"
    /\ rets[1].left = {} /\ ~rets[1].returned
    /\ rets' = <<[result |-> SanitizeWith(<<>>, rets[1].result), left |-> {},
                  returned |-> TRUE]>>
    /\ UNCHANGED <<fn, args>>
    /\ UNCHANGED <<execVars, planVars>>

NextRange ==
    \/ sanitizeFilename_Replace
    \/ sanitizeFilename_Return

SpecRange == InitRange /\ [][NextRange]_vars

----------------------------------------------------------------------------
(* Properties of the direct backend *)

\* The operation whose Execute was entered last in this batch (0: none yet).
Cur == IF pc \in {"loop", "done"} THEN i - 1 ELSE i

\* The last Execute has returned and results[i-1] holds its outcome.
Returned == pc \in {"loop", "done"} /\ i > 1

\* A file that holds only part of the source it was copied from.
Partial(p) ==
    fs[p].exists /\ fs[p].id \in Sources /\ fs[p].size # FullSize(fs[p].id)

\* No destination path that held a file when the batch started, or when the
\* current operation was entered, holds anything else now.
NothingOverwritten ==
    /\ \A k \in 1..Len(ops) :
          fs0[ops[k].Destination].exists
             => fs[ops[k].Destination] = fs0[ops[k].Destination]
    /\ (Cur >= 1 /\ pre[ops[Cur].Destination].exists)
          => fs[ops[Cur].Destination] = pre[ops[Cur].Destination]

\* C1 (as stated): a live Execute whose destination exists when it runs ends
\* skipped-exists (Skipped and Success true, no error) and touches no file.
C1_Original ==
    (~dryRun /\ Returned /\ pre[ops[i-1].Destination].exists)
       => /\ results[i-1] = SkippedExists(ops[i-1])
          /\ fs = pre

\* C1 (amended): a live Execute whose destination exists when it runs touches
\* no file and ends skipped-exists if its source exists, failed with
\* source-missing if it does not; no pre-existing destination file is ever
\* overwritten.
C1_SkipOnExists ==
    /\ (~dryRun /\ Cur >= 1 /\ pre[ops[Cur].Destination].exists) => fs = pre
    /\ (~dryRun /\ Returned /\ pre[ops[i-1].Destination].exists)
          => results[i-1] = IF pre[ops[i-1].Source].exists
                              THEN SkippedExists(ops[i-1])
                              ELSE Failed(ops[i-1], ErrSourceMissing)
    /\ NothingOverwritten

C1_Witness ==
    /\ ~dryRun /\ Returned
    /\ pre[ops[i-1].Destination].exists /\ pre[ops[i-1].Source].exists
    /\ results[i-1].Skipped /\ results[i-1].Success

\* C2: a dry-run batch issues no system call, changes no file and no
\* directory, and every outcome it records is a plain success.
C2_DryRunTouchesNothing ==
    dryRun => /\ calls = {}
              /\ fs = fs0
              /\ dirs = dirs0
              /\ \A k \in 1..(i-1) : results[k] = Succeeded(ops[k], "dry run - no changes made")

C2_Witness ==
    /\ dryRun /\ pc = "done"
    /\ \E k \in 1..Len(ops) : ~fs[ops[k].Source].exists
    /\ \E k \in 1..Len(ops) : fs[ops[k].Destination].exists

\* C3: in every state of a live move, interrupted or not, the source is
\* absent only if the destination exists with the size the source had.
C3_SourceGoneOnlyAfterVerifiedCopy ==
    (/\ ~dryRun /\ Cur >= 1 /\ ops[Cur].Mode = ModeMove
     /\ pre[ops[Cur].Source].exists /\ ~fs[ops[Cur].Source].exists)
       => /\ fs[ops[Cur].Destination].exists
          /\ fs[ops[Cur].Destination].size = pre[ops[Cur].Source].size

C3_Witness ==
    /\ ~dryRun /\ Len(ops) = 1 /\ Cur = 1 /\ ops[1].Mode = ModeMove
    /\ "Copy" \in calls
    /\ pre[ops[1].Source].exists /\ ~fs[ops[1].Source].exists

\* C4 (as stated): on the second live run every operation whose destination
\* the first run materialized is reported skipped-exists, in both modes.
C4_Original ==
    run = 2 => \A k \in 1..(i-1) :
                  fs0[ops[k].Destination].exists => results[k] = SkippedExists(ops[k])

\* C4 (amended): neither run overwrites anything; on the second run an
\* operation whose destination the first run materialized is reported
\* skipped-exists if its source still exists when it runs (always so in copy
\* mode) and failed with source-missing if the source is gone (as after a
\* completed move).
C4_SecondRunSkipsOrSourceMissing ==
    /\ NothingOverwritten
    /\ run = 2 =>
         /\ \A k \in 1..(i-1) :
               fs0[ops[k].Destination].exists
                  => /\ results[k] \in {SkippedExists(ops[k]),
                                        Failed(ops[k], ErrSourceMissing)}
                     /\ ops[k].Mode = ModeCopy => results[k] = SkippedExists(ops[k])
         /\ (Returned /\ fs0[ops[i-1].Destination].exists)
               => results[i-1] = IF pre[ops[i-1].Source].exists
                                   THEN SkippedExists(ops[i-1])
                                   ELSE Failed(ops[i-1], ErrSourceMissing)

C4_Witness ==
    /\ run = 2 /\ pc = "done"
    /\ \E k \in 1..Len(ops) :
          /\ fs0[ops[k].Destination].exists
          /\ results[k] = Failed(ops[k], ErrSourceMissing)
    /\ summary.failed = Len(ops)

\* C5: a live move that reports success, by rename or by the fallback, leaves
\* the source absent and the destination holding the source's file, at the
\* size the source had.
C5_SuccessfulMoveLeavesOneCopy ==
    (/\ ~dryRun /\ Returned /\ ops[i-1].Mode = ModeMove
     /\ IsSucceeded(results[i-1]))
       => /\ pre[ops[i-1].Source].exists
          /\ ~fs[ops[i-1].Source].exists
          /\ fs[ops[i-1].Destination] = pre[ops[i-1].Source]

C5_Witness ==
    /\ ~dryRun /\ Returned /\ Len(ops) = 1 /\ ops[1].Mode = ModeMove
    /\ IsSucceeded(results[1])
    /\ {"Rename", "Copy", "Remove"} \subseteq calls

\* C6 (as stated): when the source cannot be removed after a verified copy,
\* the outcome is a partial success, not a failure, and the destination
\* stays in place.
C6_Original ==
    (~dryRun /\ Returned /\ results[i-1].Error = ErrRemoveSource)
       => /\ results[i-1].Success
          /\ ~IsFailed(results[i-1])
          /\ fs[ops[i-1].Destination].exists

\* C7: the batch fills results in list order, one outcome per operation at
\* the operation's index, and ends only after the last operation, whatever
\* failed on the way.
C7_BatchOneToOneInOrder ==
    /\ Len(results) = Len(ops)
    /\ \A k \in 1..Len(ops) :
          IF k < i THEN /\ results[k].Operation = ops[k]
                        /\ IsFailed(results[k]) \/ results[k].Success
                   ELSE results[k] = ZeroResult
    /\ pc \notin {"loop", "done"} => i \in 1..Len(ops)
    /\ pc = "done" => /\ i = Len(ops) + 1
                      /\ summary.succeeded + summary.skipped + summary.failed = Len(ops)

C7_Witness ==
    /\ pc = "done" /\ ~dryRun /\ Len(ops) = MaxOps
    /\ IsFailed(results[1])
    /\ IsSucceeded(results[Len(ops)])

\* C8 (as stated): no operation is ever reported succeeded or skipped while
\* its destination holds only part of a source file.
C8_Original ==
    \A k \in 1..(i-1) : results[k].Success => ~Partial(ops[k].Destination)

\* The source of the operation that returned last is as it was when the
\* operation was entered.
SourceIntact == fs[ops[i-1].Source] = pre[ops[i-1].Source]

\* C23 (as stated): a move whose copy leaves the destination with another
\* size than the source ends failed with the verification error, with the
\* destination deleted and the source as it was.
C23_Original ==
    (~dryRun /\ Returned /\ results[i-1].Error = ErrSizeMismatch)
       => /\ results[i-1] = Failed(ops[i-1], ErrSizeMismatch)
          /\ ~fs[ops[i-1].Destination].exists
          /\ SourceIntact /\ fs[ops[i-1].Source].exists

\* C24 (as stated): a copy that fails when the source is opened, when the
\* destination is created or during the transfer ends failed with the error
\* attached, the source unchanged and no file at the destination.
C24_Original ==
    (~dryRun /\ Returned /\ results[i-1].Error \in {ErrOpen, ErrCreate, ErrCopy})
       => /\ IsFailed(results[i-1]) /\ ~results[i-1].Success
          /\ SourceIntact
          /\ ~fs[ops[i-1].Destination].exists

\* Operations j and k of the list, j before k, write the same destination
\* from different sources, and j transferred its file in this batch.
TransferredBefore(j, k) ==
    /\ j < k
    /\ ops[j].Destination = ops[k].Destination
    /\ ops[j].Source # ops[k].Source
    /\ results[j].Success /\ ~results[j].Skipped

----------------------------------------------------------------------------
(* Properties of the plan compiler *)

\* The operations planned so far, in plan order; trace[k] is the file
\* Planned[k] was planned from and the per-location outputs in force then.
Planned == allOperations \o operations

Least(S) == CHOOSE x \in S : \A y \in S : x <= y

\* The per-location outputs whose location the file is under, and the
\* library locations the file is under (by position).
MatchingOutputs(t) ==
    {j \in 1..Len(t.Outputs) : UnderRoot(windows, t.File, t.Outputs[j].Location.RootPath)}
ContainingLocations(t) ==
    {j \in 1..Len(database[t.Section].Locations) :
        UnderRoot(windows, t.File, database[t.Section].Locations[j].RootPath)}

C10_Original ==
    \A k \in 1..Len(trace) :
       LET t == trace[k]
       IN  /\ config.OutputDir = <<>>
           /\ \A j \in MatchingOutputs(t) : t.Outputs[j].OutputPath = <<>>
           /\ ContainingLocations(t) # {}
           => Planned[k].Destination =
                 Join(windows,
                      database[t.Section].Locations[Least(ContainingLocations(t))].RootPath,
                      t.DestName)

\* C11 (as stated): a movie or show with no eligible file is never passed
\* to PromptMovie / PromptShow, and no planned operation comes from it.
C11_Original ==
    /\ \A k \in 1..Len(promptCalls) : promptCalls[k].Previews > 0
    /\ \A k \in 1..Len(trace) :
          \A c \in 1..Len(promptCalls) :
             /\ promptCalls[c].Section = trace[k].Section
             /\ promptCalls[c].Entity = trace[k].Entity
             => promptCalls[c].Previews > 0

\* C12 (as stated): every planned operation has a source different from its
\* destination.
C12_Original ==
    \A k \in 1..Len(Planned) : Planned[k].Source # Planned[k].Destination

\* path lies under the directory dir: below the cleaned dir, or, for the
\* current directory, relative and not starting with a ".." element.
PathUnder(win, path, dir) ==
    LET d == Clean(win, dir)
        sep == Separator(win)
    IN  IF d = <<".">>
          THEN /\ Len(path) > 0
               /\ ~IsPathSeparator(win, path[1])
               /\ path # <<".", ".">>
               /\ ~HasPrefix(path, <<".", ".", sep>>)
        ELSE IF d = <<sep>> THEN HasPrefix(path, d)
        ELSE HasPrefix(path, d \o <<sep>>)

\* The output directory getOutputPath resolves for the file of trace entry t
ResolvedOutput(t) ==
    getOutputPath(windows, t.File, t.Outputs, config.OutputDir,
                  database[t.Section].Locations)

\* C13 (as stated): every planned destination is the output directory
\* resolved for its file joined with the formatted name, and lies under
\* that directory.
C13_Original ==
    \A k \in 1..Len(trace) :
       /\ Planned[k].Destination =
             Join(windows, ResolvedOutput(trace[k]), trace[k].DestName)
       /\ PathUnder(windows, Planned[k].Destination, ResolvedOutput(trace[k]))

\* Planning is over: run has left the loop over the sections.
PlanningDone == ppc \notin {"section", "outputs", "generate"}

\* The source and the operation the catalog calls for, for a file of library
\* lib with formatted name destName, when no location is deselected and no
\* location has an output of its own.
ExpectedSource(path) ==
    IF config.PathMapSrc # <<>>
      THEN ApplyPathMapping(windows, path, config.PathMapSrc, config.PathMapDst)
      ELSE path
ExpectedOperation(lib, path, destName) ==
    Operation(ExpectedSource(path),
              Join(windows,
                   getOutputPath(windows, path, <<>>, config.OutputDir, lib.Locations),
                   destName),
              config.Mode)

\* One operation per file of the library, depth-first in catalog order.
ExpectedMovies(lib) ==
    Concat([e \in 1..Len(lib.Movies) |->
      [k \in 1..Len(lib.Movies[e].Files) |->
         LET path == lib.Movies[e].Files[k].File
         IN  ExpectedOperation(lib, path,
                FormatMovie(formatter, lib.Movies[e],
                            GetExtension(windows, ExpectedSource(path))))]])
ExpectedShows(lib) ==
    Concat([s \in 1..Len(lib.Shows) |->
      Concat([a \in 1..Len(lib.Shows[s].Seasons) |->
        Concat([b \in 1..Len(lib.Shows[s].Seasons[a].Episodes) |->
          LET episode == lib.Shows[s].Seasons[a].Episodes[b]
          IN  [k \in 1..Len(episode.Files) |->
                 ExpectedOperation(lib, episode.Files[k].File,
                    FormatEpisode(formatter, lib.Shows[s].Metadata,
                                  lib.Shows[s].Seasons[a].Metadata, episode,
                                  GetExtension(windows,
                                               ExpectedSource(episode.Files[k].File))))]])])])
ExpectedPlan ==
    Concat([s \in 1..Len(database) |->
              IF database[s].LoadFails THEN <<>>
              ELSE IF database[s].SectionType = SectionTypeMovie
                THEN ExpectedMovies(database[s])
                ELSE ExpectedShows(database[s])])

\* The worked example: default templates, move mode, --output /out, no path
\* map, on a build whose separator is "/".
ExampleRun ==
    /\ database = <<ExampleLibrary>>
    /\ ~windows
    /\ config.OutputDir = ExampleOutput /\ config.Mode = ModeMove
    /\ config.TVFormat = <<>> /\ config.PathMapSrc = <<>>
ExampleOperation ==
    Operation(ExampleFile,
              <<"/", "o", "u", "t", "/", "S", "h", "o", "w", " ", "A", "/", "S", "e", "a", "s", "o", "n", " ", "1", "/", "S", "0", "1", "E", "0", "3", " ", "-", " ", "P", "i", "l", "o", "t", ".", "m", "k", "v">>,
              ModeMove)

\* C22: without prompts (--yes or script mode) the finished plan holds
\* exactly one operation per file of the loaded sections, in catalog order
\* (sections, then movies or shows, seasons, episodes, files), each with the
\* remapped file path as source, the resolved output directory joined with
\* the formatted name as destination and the one mode of the run; the worked
\* example yields its one operation.
C22_OnePerFileInCatalogOrder ==
    PlanningDone =>
      /\ allOperations = ExpectedPlan
      /\ \A k \in 1..Len(allOperations) : allOperations[k].Mode = config.Mode
      /\ ExampleRun => allOperations = <<ExampleOperation>>

\* Both sections loaded and planned in copy mode with a path map: four
\* operations, three from the movie library and one from the show library.
C22_Witness ==
    /\ PlanningDone
    /\ Len(database) = 2
    /\ Len(allOperations) = 4
    /\ config.Mode = ModeCopy
    /\ config.PathMapSrc # <<>>

\* The closed prefix rule, position by position: in lower case and with the
\* platform's separators turned into "/", the file path goes on after the
\* root (less one trailing "/") with a "/".
ClosedPrefix(win, filePath, rootPath) ==
    LET f == normalizePathForComparison(win, filePath)
        r == TrimSuffix(normalizePathForComparison(win, rootPath), <<"/">>)
    IN  /\ Len(f) > Len(r)
        /\ \A k \in 1..Len(r) : f[k] = r[k]
        /\ f[Len(r) + 1] = "/"

\* The locations of the call that hold the file under the rule.
Holding == {k \in 1..Len(args.locations) :
               ClosedPrefix(args.win, args.filePath, args.locations[k].RootPath)}

\* What the applied function answered, as a membership: for
\* getLocationForPath, whether it returned a root.
Found == IF fn = "getLocationForPath" THEN rets[1] # <<>> ELSE rets[1]

\* C25: pathInLocations, fileInLocations, showInLocations and
\* getLocationForPath all decide membership by the closed, case-insensitive,
\* slash-normalized prefix rule; root /a/b holds /a/b/x and /A/B/x and never
\* /a/bc/x.
C25_ClosedPrefixEverywhere ==
    (fn \in {"pathInLocations", "getLocationForPath", "fileInLocations",
             "showInLocations"} /\ rets # <<>>)
      => /\ Found = (Holding # {})
         /\ (fn = "getLocationForPath" /\ Holding # {})
              => rets[1] = args.locations[Least(Holding)].RootPath
         /\ (args.filePath = <<"/", "a", "/", "b", "c", "/", "x">>
               /\ \A k \in 1..Len(args.locations) :
                     args.locations[k].RootPath \in {<<"/", "a", "/", "b">>, <<"/", "a", "/", "b", "/">>})
              => ~Found
         /\ (args.filePath \in {<<"/", "a", "/", "b", "/", "x">>, <<"/", "A", "/", "B", "/", "x">>}
               /\ args.locations[1].RootPath = <<"/", "a", "/", "b">>)
              => Found

\* A file under a root that shares only a string prefix with the asked
\* location has been tested, and found outside it.
C25_Witness ==
    /\ fn = "pathInLocations" /\ rets = <<FALSE>>
    /\ args.filePath = <<"/", "a", "/", "b", "c", "/", "x">>
    /\ Len(args.locations) = 1
    /\ args.locations[1].RootPath = <<"/", "a", "/", "b">>

\* The operations section s calls for when nothing is deselected.
SectionOperations(s) ==
    IF database[s].SectionType = SectionTypeMovie THEN ExpectedMovies(database[s])
    ELSE ExpectedShows(database[s])

\* The planned operations that come from section s (by position in the plan).
FromSection(s) == {k \in 1..Len(trace) : trace[k].Section = s}

\* C27: a section whose content fails to load is dropped and nothing else
\* is: the run goes through all the sections, no planned operation comes
\* from a section that failed, every section that loaded has all its
\* operations in the plan, and the plan follows the order of the sections.
C27_FailedSectionOnlyDropped ==
    /\ Len(Planned) = Len(trace)
    /\ \A k \in 1..Len(trace) :
          /\ ~database[trace[k].Section].LoadFails
          /\ \A j \in 1..k : trace[j].Section <= trace[k].Section
    /\ PlanningDone =>
         /\ section = Len(database) + 1
         /\ \A s \in 1..Len(database) :
               Cardinality(FromSection(s)) =
                  IF database[s].LoadFails THEN 0 ELSE Len(SectionOperations(s))

\* The movie library failed to load and the show library was planned.
C27_Witness ==
    /\ PlanningDone
    /\ Len(database) = 2
    /\ database[1].LoadFails /\ ~database[2].LoadFails
    /\ Len(allOperations) = 1
    /\ trace[1].Section = 2

\* The show and movie prompts before call k that were asked and answered "all"
AnsweredAllBefore(k) ==
    {j \in 1..(k - 1) : promptCalls[j].Asked /\ promptCalls[j].All}

\* The approve-all state comes from the show and movie prompts alone.
ApproveAllFromShowOrMovie ==
    /\ \A k \in 1..Len(promptCalls) :
          ~promptCalls[k].Asked => AnsweredAllBefore(k) # {}
    /\ ApproveAll => AnsweredAllBefore(Len(promptCalls) + 1) # {}

\* After "all" at a show or movie prompt no later one is asked.
ApproveAllLasts ==
    /\ \A k \in 1..Len(promptCalls) :
          AnsweredAllBefore(k) # {} => ~promptCalls[k].Asked
    /\ AnsweredAllBefore(Len(promptCalls) + 1) # {} => ApproveAll

\* C28: PromptShow and PromptMovie proceed without asking only after an
\* earlier show or movie prompt of the run was answered "all"; from then on
\* no show or movie prompt is asked, in this library and in later ones; and
\* nothing else (in particular "all" in the per-location loop of
\* PromptLibrary) turns the approve-all state on.
C28_Original == ApproveAllFromShowOrMovie /\ ApproveAllLasts

\* Some operation of the list has been entered, or an effect of one is there.
Executed ==
    \/ i > 1 \/ pc # "loop" \/ run > 1 \/ killed
    \/ calls # {} \/ fs # fs0 \/ dirs # dirs0
    \/ results # NewResults(Len(ops))

\* ConfirmProceed returned true after reading "y" or "yes".
ExplicitYes ==
    /\ Len(rets) = 1
    /\ rets[1].asked /\ rets[1].proceed
    /\ TrimSpace(ToLower(rets[1].input)) \in {<<"y">>, <<"y", "e", "s">>}

----------------------------------------------------------------------------
(* Properties of the sanitizer *)

ForbiddenChars == {":", "/", "\\", "*", "?", "\"", "<", ">", "|"}

\* C14 (as stated): what sanitizeFilename returns contains none of the
\* characters : / \ * ? " < > | and no control character, neither starts
\* nor ends with a space, and does not end in a period.
C14_Original ==
    \A k \in 1..Len(rets) :
       LET r == rets[k]
       IN  /\ \A j \in 1..Len(r) : r[j] \notin ForbiddenChars /\ ~IsControl(r[j])
           /\ Len(r) > 0 => /\ ~IsSpace(r[1])
                            /\ ~IsSpace(r[Len(r)])
                            /\ r[Len(r)] # "."

\* C15 (as stated): sanitizing the sanitizer's result returns it unchanged.
C15_Original ==
    Len(rets) >= 2 => rets[2] = rets[1]

\* C16 (as stated): for a name that is not empty and not made of whitespace
\* only, the sanitizer returns a non-empty string.
C16_Original ==
    /\ Len(rets) >= 1
    /\ \E j \in 1..Len(args[1]) : ~IsSpace(args[1][j])
    => rets[1] # <<>>

\* C26: in whatever order the nine entries of the map are applied, the
\* sanitizer returns what it returns with the entries applied in the order
\* they are written.
C26_OrderIndependent ==
    (fn = "range replacements" /\ rets[1].returned)
       => rets[1].result = sanitizeFilename(args[1])

\* A name of two different keys, one replaced by two characters and one
\* removed, has been sanitized.
C26_Witness ==
    /\ fn = "range replacements" /\ rets[1].returned
    /\ args[1] = <<":", "?">>
    /\ rets[1].result = <<"-">>

----------------------------------------------------------------------------
(* Properties of the formatter *)

\* strings.Count(s, sub) for a non-empty sub
RECURSIVE Count(_, _)
Count(s, sub) ==
    IF Len(s) < Len(sub) THEN 0
    ELSE IF HasPrefix(s, sub) THEN 1 + Count(SubSeq(s, Len(sub) + 1, Len(s)), sub)
    ELSE Count(Tail(s), sub)

\* The placeholder stands once in the template, and its value (when not
\* empty) stands once in the output.
SubstitutedOnce(format, token, value, out) ==
    Count(format, token) = 1 /\ value # <<>> => Count(out, value) = 1

MovieTokens == {TokTitle, TokYear, TokExt}
EpisodeTokens == {TokShow, TokSeason, TokSnum, TokEnum, TokTitle, TokYear, TokExt}

\* C17 (as stated): for a template with a placeholder standing once, the
\* formatted name holds the placeholder's value once, and no placeholder
\* token is left in the formatted name.
C17_Original ==
    /\ fn = "FormatMovie" /\ Len(rets) = 1 =>
          LET out == rets[1]
              md == args.movie.Metadata
          IN  /\ SubstitutedOnce(args.format, TokTitle, sanitizeFilename(md.Title), out)
              /\ SubstitutedOnce(args.format, TokYear,
                                 IF md.Year = NoInt THEN <<"U", "n", "k", "n", "o", "w", "n">>
                                                    ELSE Itoa(md.Year), out)
              /\ SubstitutedOnce(args.format, TokExt, args.ext, out)
              /\ \A tok \in MovieTokens : Count(out, tok) = 0
    /\ fn = "FormatEpisode" /\ Len(rets) = 1 =>
          LET out == rets[1]
          IN  /\ SubstitutedOnce(args.format, TokShow,
                                 sanitizeFilename(args.show.Title), out)
              /\ SubstitutedOnce(args.format, TokTitle,
                                 sanitizeFilename(args.episode.Metadata.Title), out)
              /\ SubstitutedOnce(args.format, TokExt, args.ext, out)
              /\ \A tok \in EpisodeTokens : Count(out, tok) = 0

----------------------------------------------------------------------------
(* Properties of the path mapping *)

\* C18: ApplyPathMapping returns the path as it is when either prefix is
\* empty or the slash-normalized path does not start, case-sensitively, with
\* the slash-normalized source prefix; otherwise it returns the destination
\* prefix followed by the rest of the normalized path.
C18_RemapOnlyOnMatch ==
    fn = "ApplyPathMapping" /\ Len(rets) = 1 =>
       LET normalizedPath == ToSlash(args.win, args.path)
           normalizedSrc == ToSlash(args.win, args.srcPrefix)
       IN  IF \/ args.srcPrefix = <<>>
              \/ args.dstPrefix = <<>>
              \/ ~HasPrefix(normalizedPath, normalizedSrc)
             THEN rets[1] = args.path
             ELSE rets[1] = FromSlash(args.win,
                               args.dstPrefix \o SubSeq(normalizedPath,
                                                        Len(normalizedSrc) + 1,
                                                        Len(normalizedPath)))

\* C18 witness: a path whose case differs from the prefix's came back
\* unchanged, both prefixes being given.
C18_Witness ==
    /\ fn = "ApplyPathMapping" /\ Len(rets) = 1
    /\ args.path = <<"/", "M", "/", "a">>
    /\ args.srcPrefix = <<"/", "m">>
    /\ args.dstPrefix = <<"/", "n">>
    /\ rets[1] = args.path

\* C19 (as stated): --path-map F:\M:H:\M is read as old prefix F:\M and new
\* prefix H:\M, and the file Plex recorded as F:\M\x becomes H:\M\x.
C19_Original ==
    /\ fn = "parseFlags"
    /\ args.pathMap = DrivePathMap
    /\ args.file = <<"F", ":", "\\", "M", "\\", "x">>
    => /\ Len(rets) >= 1 =>
             /\ ~rets[1].exit
             /\ rets[1].PathMapSrc = <<"F", ":", "\\", "M">>
             /\ rets[1].PathMapDst = <<"H", ":", "\\", "M">>
       /\ Len(rets) >= 2 => rets[2] = <<"H", ":", "\\", "M", "\\", "x">>


----------------------------------------------------------------------------
(* Properties of the script backend *)

\* A script (not a preview) has been written.
ScriptWritten == fn = "outputScript" /\ Len(rets) = 2 /\ ~args.DryRun

\* The verb of a transfer line moves or copies as the mode says.
VerbOf(mode) ==
    IF mode = ModeCopy THEN {"copy", "Copy-Item", "cp"} ELSE {"move", "Move-Item", "mv"}

\* Operation k of the list has its five lines at its place in the script, and
\* the interpreter of the dialect reads the operation's own paths from them.
HandledAt(k) ==
    LET dialect == Dialect(args.shell)
        total == Len(args.operations)
        op == args.operations[k]
        b == HeaderLen + 5 * (k - 1)
        script == rets[1]
    IN  /\ script[b + 1].kind = "progress"
        /\ ReadWord(dialect, script[b + 1], 1) = ProgressText(k, total, args.Mode)
        /\ script[b + 2].kind = "progress"
        /\ ReadWord(dialect, script[b + 2], 1) = FromText(op.Source)
        /\ script[b + 3].kind = "progress"
        /\ ReadWord(dialect, script[b + 3], 1) = ToText(op.Destination)
        /\ script[b + 4].kind = "mkdir"
        /\ ReadWord(dialect, script[b + 4], Len(script[b + 4].words))
             = FilepathDir(args.win, op.Destination)
        /\ script[b + 5].kind = "transfer"
        /\ script[b + 5].guard # ""
        /\ script[b + 5].verb \in VerbOf(args.Mode)
        /\ ReadWord(dialect, script[b + 5], 1) = op.Destination
        /\ ReadWord(dialect, script[b + 5], 2) = op.Source
        /\ ReadWord(dialect, script[b + 5], 3) = op.Destination

\* The script handles the operations in plan order and nothing else.
EmittedInOrder ==
    ScriptWritten =>
      /\ Len(rets[1]) >= HeaderLen + 5 * Len(args.operations)
      /\ \A k \in 1..Len(args.operations) : HandledAt(k)
      /\ \A n \in 1..Len(rets[1]) :
           rets[1][n].kind \in {"mkdir", "transfer"}
             => n \in HeaderLen + 1 .. HeaderLen + 5 * Len(args.operations)

\* Running the script leaves every destination that existed before with the
\* content it had.
NeverReplaces ==
    ScriptWritten => \A p \in args.existing : rets[2].files[p] = OldContent

\* C20: in each of the three dialects and for every operation list, the
\* script handles the operations in plan order, giving operation i of total a
\* progress line [i/total] with the mode, the from-path and the to-path, then
\* a command that ensures the destination directory exists, then a copy or
\* move command that runs only if the destination does not exist; running the
\* script never replaces a destination that existed.
C20_Original == EmittedInOrder /\ NeverReplaces

\* The five lines of the one operation have been written.
LinesWritten == fn = "writeScript" /\ Len(rets) = 5

\* The paths of the progress lines read back as the operation's paths.
ProgressRoundTrips ==
    LinesWritten =>
      /\ ReadWord(Dialect(args.shell), rets[2], 1) = FromText(args.op.Source)
      /\ ReadWord(Dialect(args.shell), rets[3], 1) = ToText(args.op.Destination)

\* The words of the directory command and of the guarded copy/move read back
\* as the operation's paths.
CommandRoundTrips ==
    LinesWritten =>
      /\ \A k \in 1..Len(rets[4].words) :
           ReadWord(Dialect(args.shell), rets[4], k)
             = FilepathDir(args.win, args.op.Destination)
      /\ ReadWord(Dialect(args.shell), rets[5], 1) = args.op.Destination
      /\ ReadWord(Dialect(args.shell), rets[5], 2) = args.op.Source
      /\ ReadWord(Dialect(args.shell), rets[5], 3) = args.op.Destination

\* C21: for every path with any of ' & % ! (and ^ for batch), in each of the
\* three dialects, every place where a writer prints the path (progress
\* lines, directory command, existence test, copy/move arguments) is read
\* back by the dialect's interpreter as the original path.
C21_Original == ProgressRoundTrips /\ CommandRoundTrips

============================================================================
